---------------------------- MODULE Spec2Model ----------------------------
(***************************************************************************)
(* Screening and composite scoring of the stock application                *)
(* (stock/views.py, stock/forms.py, stock/models.py and the score command  *)
(* of stock/management/commands/update_stock_data.py).                     *)
(*                                                                         *)
(* Units.  Every Decimal ratio (per, pbr, roe, ...) and every form field   *)
(* that bounds one is an integer number of hundredths (7.00 is 700).       *)
(* market_cap is in whole yen, volume in shares, the form's market_cap     *)
(* fields in whole oku-yen (10^8 yen).  Scores are in hundredths of a      *)
(* point (12.5 points is 1250).  Financial amounts are whole numbers.      *)
(* Comparisons the code makes on floats are made here on exact numbers.    *)
(***************************************************************************)
EXTENDS Integers, Sequences, FiniteSets, TLC

(***************************************************************************)
(* Optional values: Python's None is the empty tuple, a present value v    *)
(* is the one-element tuple <<v>>.                                         *)
(***************************************************************************)
None == <<>>

Some(v) == <<v>>

Get(o) == o[1]

\* Python truthiness of "None or a number" (if x:): None and 0 are false.
Truthy(o) == o # None /\ Get(o) # 0

Max(a, b) == IF a >= b THEN a ELSE b

Min(a, b) == IF a <= b THEN a ELSE b

(***************************************************************************)
(* Text.  A text is a sequence of one-character strings; the Japanese      *)
(* market and sector names are written in Latin letters.                   *)
(***************************************************************************)
UpperToLower ==
    [c \in {"A", "B", "C", "D", "E", "F", "G", "H", "I", "J", "K", "L", "M", "N", "O",
            "P", "Q", "R", "S", "T", "U", "V", "W", "X", "Y", "Z"} |->
        CASE c = "A" -> "a" [] c = "B" -> "b" [] c = "C" -> "c" [] c = "D" -> "d"
          [] c = "E" -> "e" [] c = "F" -> "f" [] c = "G" -> "g" [] c = "H" -> "h"
          [] c = "I" -> "i" [] c = "J" -> "j" [] c = "K" -> "k" [] c = "L" -> "l"
          [] c = "M" -> "m" [] c = "N" -> "n" [] c = "O" -> "o" [] c = "P" -> "p"
          [] c = "Q" -> "q" [] c = "R" -> "r" [] c = "S" -> "s" [] c = "T" -> "t"
          [] c = "U" -> "u" [] c = "V" -> "v" [] c = "W" -> "w" [] c = "X" -> "x"
          [] c = "Y" -> "y" [] c = "Z" -> "z"]

LowerChar(c) == IF c \in DOMAIN UpperToLower THEN UpperToLower[c] ELSE c

Lower(t) == [i \in 1..Len(t) |-> LowerChar(t[i])]

\* needle occurs in hay as a contiguous run (str.__contains__)
Contains(hay, needle) ==
    \E i \in 0..(Len(hay) - Len(needle)) :
        \A j \in 1..Len(needle) : hay[i + j] = needle[j]

\* the ORM lookup field__icontains=needle
IContains(hay, needle) == Contains(Lower(hay), Lower(needle))


(***************************************************************************)
(* Persistent state (stock/models.py) and the state of one screening       *)
(* request.                                                                *)
(***************************************************************************)
VARIABLES
    stocks,               \* Stock rows
    indicators,           \* Indicator rows (MarketSnapshot)
    advanced_indicators,  \* AdvancedIndicator rows (FundamentalSnapshot)
    financials,           \* Financial rows (FinancialStatementRecord)
    request,              \* the GET data of the screening request, or NoRequest
    results,              \* screening_view's results list
    scored,               \* results of calculate_stock_scores_complete
    comprehensive,        \* results of calculate_comprehensive_score
    financial_analysis,   \* results of analyze_financial_performance
    stocks_data,          \* comparison_view's stocks_data list
    raw_value,            \* the raw value handed to safe_decimal_convert
    converted,            \* the results of safe_decimal_convert, in order
    cagr_values,          \* the values handed to calculate_cagr, newest first
    cagr_years,           \* the years handed to calculate_cagr
    cagr,                 \* the results of calculate_cagr, in order
    today,                \* the calendar day, timezone.now().date()
    fetchers,             \* the running calls of fetch_stock_indicators, by worker
    fetch_count,          \* the number of calls of fetch_stock_indicators so far
    screenings,           \* the screening requests served, with the data each one read
    ingest,               \* the runs of _parse_jpx_data so far, the last feed and its return value
    listed,               \* history: for each code, the fields of the last feed row accepted for it
    alert_rules,          \* AlertRule rows, by id
    alert_logs,           \* AlertLog rows, in the order of their creation
    monitors,             \* the runs of check_price_alerts in progress, by worker
    monitor_count,        \* the runs of run_alert_monitoring started so far
    quality_rules,        \* DataQualityRule rows, by id
    quality_issues,       \* DataQualityIssue rows, in the order of their detection
    quality_alerts,       \* the admin notifications send_quality_alert sent
    quality_count         \* the runs of run_quality_checks so far

vars == <<stocks, indicators, advanced_indicators, financials, request, results,
          scored, comprehensive, financial_analysis, stocks_data, raw_value, converted,
          cagr_values, cagr_years, cagr, today, fetchers, fetch_count, screenings,
          ingest, listed, alert_rules, alert_logs, monitors, monitor_count,
          quality_rules, quality_issues, quality_alerts, quality_count>>

\* no run of _parse_jpx_data so far
NoIngest == [count |-> 0, feed |-> <<>>, again |-> FALSE, created |-> 0]

\* Decimal columns of Indicator that the screening reads
IndicatorAttrs ==
    {"per", "pbr", "dividend_yield", "payout_ratio", "price", "market_cap", "volume"}

\* Decimal columns of AdvancedIndicator that the screening reads
AdvancedAttrs ==
    {"roe", "roa", "roic", "peg_ratio", "ev_ebitda", "operating_margin",
     "net_margin", "revenue_growth_1y", "net_growth_1y", "equity_ratio",
     "current_ratio", "debt_equity_ratio"}

\* An Indicator row of stock code at date with column values vals
IndicatorRow(code, date, vals) ==
    [a \in IndicatorAttrs \cup {"stock", "date"} |->
        IF a = "stock" THEN code ELSE IF a = "date" THEN date ELSE vals[a]]

\* An AdvancedIndicator row of stock code at date with column values vals
AdvancedRow(code, date, vals) ==
    [a \in AdvancedAttrs \cup {"stock", "date"} |->
        IF a = "stock" THEN code ELSE IF a = "date" THEN date ELSE vals[a]]

\* A Financial row (annual record) of stock code
FinancialRow(code, year, revenue, net_income) ==
    [stock |-> code, year |-> year, revenue |-> revenue, net_income |-> net_income]

\* Stock.Meta.ordering = ['code']: the rows of a set of Stock rows by code
RECURSIVE OrderByCode(_)
OrderByCode(S) ==
    IF S = {} THEN <<>>
    ELSE LET first == CHOOSE s \in S : \A t \in S : s.code <= t.code
         IN  <<first>> \o OrderByCode(S \ {first})

\* Financial.objects.order_by('-year') over the rows of one stock
RECURSIVE OrderByYearDesc(_)
OrderByYearDesc(S) ==
    IF S = {} THEN <<>>
    ELSE LET first == CHOOSE s \in S : \A t \in S : s.year >= t.year
         IN  <<first>> \o OrderByYearDesc(S \ {first})

\* queryset[:n]
Take(seq, n) == SubSeq(seq, 1, Min(n, Len(seq)))

\* aggregate(Max('date'))['date__max']
MaxDateOf(rows) ==
    IF rows = {} THEN None
    ELSE Some(CHOOSE d \in {r.date : r \in rows} : \A r \in rows : r.date <= d)

\* related_manager.order_by('-date').first()
LatestRowOf(rows) ==
    IF rows = {} THEN None
    ELSE Some(CHOOSE r \in rows : \A q \in rows : q.date <= r.date)

(***************************************************************************)
(* Exact comparison of products of naturals that do not fit one machine    *)
(* word of TLC: a * b as three base-1000 digits.                           *)
(***************************************************************************)
Product(a, b) ==
    LET a1  == a \div 1000
        a0  == a % 1000
        b1  == b \div 1000
        b0  == b % 1000
        lo  == a0 * b0
        mid == a1 * b0 + a0 * b1 + (lo \div 1000)
        hi  == a1 * b1 + (mid \div 1000)
    IN  <<hi, mid % 1000, lo % 1000>>

\* a * b > c * d for naturals a, b, c, d
ProductGt(a, b, c, d) ==
    LET p == Product(a, b)
        q == Product(c, d)
    IN  \/ p[1] > q[1]
        \/ p[1] = q[1] /\ p[2] > q[2]
        \/ p[1] = q[1] /\ p[2] = q[2] /\ p[3] > q[3]

RECURSIVE Power(_, _)
Power(b, n) == IF n = 0 THEN 1 ELSE b * Power(b, n - 1)

(***************************************************************************)
(* Amounts.  Financial.revenue and Financial.net_income are Decimals of up *)
(* to 20 digits without decimal places; the rows of the model hold them as *)
(* integers, and calculate_cagr reads them in the form below, which also   *)
(* holds the amounts that do not fit one machine word of TLC: a sign and   *)
(* the magnitude hi * 2^30 + lo.                                           *)
(***************************************************************************)
Amount(neg, hi, lo) == [neg |-> neg /\ (hi # 0 \/ lo # 0), hi |-> hi, lo |-> lo]

\* the amount of a model integer
AmountOf(n) == IF n < 0 THEN Amount(TRUE, 0, -n) ELSE Amount(FALSE, 0, n)

\* the model integer of an amount below 2^30
IntOf(x) == IF x.neg THEN -x.lo ELSE x.lo

\* [Decimal values] of a list of model integers
Amounts(values) == [i \in 1..Len(values) |-> AmountOf(values[i])]

AmountIsZero(x) == x.hi = 0 /\ x.lo = 0

\* x < y for amounts
AmountLt(x, y) ==
    LET magLt(u, v) == u.hi < v.hi \/ (u.hi = v.hi /\ u.lo < v.lo)
    IN  IF x.neg /\ ~y.neg THEN TRUE
        ELSE IF ~x.neg /\ y.neg THEN FALSE
        ELSE IF x.neg THEN magLt(y, x) ELSE magLt(x, y)

\* the number of bits of a natural
RECURSIVE BitLength(_)
BitLength(n) == IF n = 0 THEN 0 ELSE 1 + BitLength(n \div 2)

\* float(x) of an integral Decimal x: the nearest double, a tie to the even
\* significand.  A double has a significand of 53 bits, so an amount below
\* 2^53 is kept and a longer one is rounded to a multiple of 2^shift.
Float(x) ==
    LET shift == Max(BitLength(x.hi) - 23, 0)
        unit  == Power(2, shift)
        r     == x.lo % unit
        odd   == (x.lo \div unit) % 2 = 1
        up    == 2 * r > unit \/ (2 * r = unit /\ odd)
        lo    == IF up THEN x.lo - r + unit ELSE x.lo - r
    IN  IF shift = 0 THEN x
        ELSE IF lo = Power(2, 30) THEN Amount(x.neg, x.hi + 1, 0)
        ELSE Amount(x.neg, x.hi, lo)

(***************************************************************************)
(* views.calculate_cagr (Command.calculate_cagr is the same code).  The    *)
(* result is None, or the number ((end / start) ^ (1 / years) - 1) * 100   *)
(* kept as its operands: "real" when the power is a real number, "complex" *)
(* when the base is negative and the exponent 1/years is not an integer    *)
(* (Python's pow then returns a complex number).  1/years raises           *)
(* ZeroDivisionError for years = 0, which the except clause turns to None. *)
(***************************************************************************)
calculate_cagr(values, years) ==
    IF Len(values) < 2 THEN None
    ELSE LET start_value == Float(values[Len(values)])
             end_value   == Float(values[1])
         IN  IF start_value.neg \/ AmountIsZero(start_value) THEN None
             ELSE IF years = 0 THEN None
             ELSE Some([kind  |-> IF end_value.neg /\ years > 1
                                  THEN "complex" ELSE "real",
                        end   |-> end_value,
                        start |-> start_value,
                        years |-> years])

\* if cagr: a real cagr is 0 when end = start (the quotient of two doubles is
\* 1.0 only then, and pow(1.0, y) is 1.0); a complex one is not 0
CagrTruthy(c) == c # None /\ (Get(c).kind = "complex" \/ Get(c).end # Get(c).start)

\* cagr > t raises TypeError for a complex cagr
CagrCompareRaises(c) == c # None /\ Get(c).kind = "complex"

\* cagr > t for a real cagr of amounts below 2^30 and a whole percentage
\* t >= 0 (years > 1):
\* (end/start)^(1/years) > (100+t)/100  iff  end * 100^years > start * (100+t)^years
CagrGt(c, t) ==
    LET r == Get(c)
    IN  /\ IntOf(r.end) > 0
        /\ ProductGt(IntOf(r.end), Power(100, r.years),
                     IntOf(r.start), Power(100 + t, r.years))

(***************************************************************************)
(* The four sub-scores of views.py (25 points each, in hundredths).        *)
(***************************************************************************)
\* a variant without tiers: each half falls linearly with its ratio
ValuationLinear(indicator) ==
    (IF Truthy(indicator.per) THEN 1250 - Get(indicator.per) \div 2 ELSE 0)
    + (IF Truthy(indicator.pbr) THEN 1250 - Get(indicator.pbr) * 5 ELSE 0)

calculate_valuation_score(indicator) ==
    LET per == indicator.per
        pbr == indicator.pbr
        per_score ==
            IF ~Truthy(per) THEN 0
            ELSE IF Get(per) < 800 THEN 1250
            ELSE IF Get(per) < 1200 THEN 1000
            ELSE IF Get(per) < 1500 THEN 750
            ELSE IF Get(per) < 2000 THEN 500
            ELSE IF Get(per) < 2500 THEN 250
            ELSE 0
        pbr_score ==
            IF ~Truthy(pbr) THEN 0
            ELSE IF Get(pbr) < 80 THEN 1250
            ELSE IF Get(pbr) < 100 THEN 1000
            ELSE IF Get(pbr) < 150 THEN 750
            ELSE IF Get(pbr) < 200 THEN 500
            ELSE IF Get(pbr) < 300 THEN 250
            ELSE 0
    IN  per_score + pbr_score

\* advanced is an optional AdvancedIndicator row
calculate_profitability_score(advanced) ==
    IF advanced = None THEN 0
    ELSE LET roe == Get(advanced).roe
             roa == Get(advanced).roa
             roe_score ==
                 IF ~Truthy(roe) THEN 0
                 ELSE IF Get(roe) > 2000 THEN 1250
                 ELSE IF Get(roe) > 1500 THEN 1000
                 ELSE IF Get(roe) > 1000 THEN 750
                 ELSE IF Get(roe) > 500 THEN 500
                 ELSE IF Get(roe) > 0 THEN 250
                 ELSE 0
             roa_score ==
                 IF ~Truthy(roa) THEN 0
                 ELSE IF Get(roa) > 1000 THEN 1250
                 ELSE IF Get(roa) > 700 THEN 1000
                 ELSE IF Get(roa) > 500 THEN 750
                 ELSE IF Get(roa) > 300 THEN 500
                 ELSE IF Get(roa) > 0 THEN 250
                 ELSE 0
         IN  roe_score + roa_score

\* the present, non-zero values of column attr of a list of Financial rows
TruthyValues(fin, attr) ==
    LET keep(f) == Truthy(f[attr])
        kept == SelectSeq(fin, keep)
    IN  [i \in 1..Len(kept) |-> Get(kept[i][attr])]

\* [f.net_income for f in financials if f.net_income and f.net_income > 0]
PositiveValues(fin, attr) ==
    LET keep(f) == Truthy(f[attr]) /\ Get(f[attr]) > 0
        kept == SelectSeq(fin, keep)
    IN  [i \in 1..Len(kept) |-> Get(kept[i][attr])]

\* revenue_cagr and profit_cagr: calculate_cagr(values, 3) of three values or more
CagrOfThree(values) ==
    IF Len(values) >= 3 THEN calculate_cagr(Amounts(values), 3) ELSE None

\* the points of the revenue CAGR
RevenueCagrScore(revenue_cagr) ==
    IF ~CagrTruthy(revenue_cagr) THEN 0
    ELSE IF CagrGt(revenue_cagr, 15) THEN 1250
    ELSE IF CagrGt(revenue_cagr, 10) THEN 1000
    ELSE IF CagrGt(revenue_cagr, 5) THEN 750
    ELSE IF CagrGt(revenue_cagr, 0) THEN 500
    ELSE 0

\* the points of the net income CAGR
ProfitCagrScore(profit_cagr) ==
    IF ~CagrTruthy(profit_cagr) THEN 0
    ELSE IF CagrGt(profit_cagr, 20) THEN 1250
    ELSE IF CagrGt(profit_cagr, 15) THEN 1000
    ELSE IF CagrGt(profit_cagr, 10) THEN 750
    ELSE IF CagrGt(profit_cagr, 5) THEN 500
    ELSE 0

\* the TypeError of comparing a complex revenue CAGR is caught by the except
\* clause, which leaves the score at 0
GrowthScoreOf(revenue_cagr, profit_cagr) ==
    IF CagrTruthy(revenue_cagr) /\ CagrCompareRaises(revenue_cagr) THEN 0
    ELSE RevenueCagrScore(revenue_cagr) + ProfitCagrScore(profit_cagr)

calculate_growth_score(fin) ==
    IF Len(fin) < 3 THEN 0
    ELSE GrowthScoreOf(CagrOfThree(TruthyValues(fin, "revenue")),
                       CagrOfThree(PositiveValues(fin, "net_income")))

calculate_safety_score(advanced) ==
    IF advanced = None THEN 0
    ELSE LET equity_ratio  == Get(advanced).equity_ratio
             current_ratio == Get(advanced).current_ratio
             equity_score ==
                 IF ~Truthy(equity_ratio) THEN 0
                 ELSE IF Get(equity_ratio) > 7000 THEN 1250
                 ELSE IF Get(equity_ratio) > 5000 THEN 1000
                 ELSE IF Get(equity_ratio) > 4000 THEN 750
                 ELSE IF Get(equity_ratio) > 3000 THEN 500
                 ELSE IF Get(equity_ratio) > 2000 THEN 250
                 ELSE 0
             current_score ==
                 IF ~Truthy(current_ratio) THEN 0
                 ELSE IF Get(current_ratio) > 200 THEN 1250
                 ELSE IF Get(current_ratio) > 150 THEN 1000
                 ELSE IF Get(current_ratio) > 120 THEN 750
                 ELSE IF Get(current_ratio) > 100 THEN 500
                 ELSE IF Get(current_ratio) > 80 THEN 250
                 ELSE 0
         IN  equity_score + current_score

\* a variant that rounds to whole points, a tie to the even point
RoundWhole(x) ==
    LET q == x \div 100
        r == x % 100
    IN  IF r < 50 THEN q * 100
        ELSE IF r > 50 THEN (q + 1) * 100
        ELSE IF q % 2 = 0 THEN q * 100 ELSE (q + 1) * 100

\* round(x, 1) of a score x in hundredths: the nearest tenth, a tie to the
\* even tenth
Round1(x) ==
    LET q == x \div 10
        r == x % 10
    IN  IF r < 5 THEN q * 10
        ELSE IF r > 5 THEN (q + 1) * 10
        ELSE IF q % 2 = 0 THEN q * 10 ELSE (q + 1) * 10

\* total_score = valuation_score + profitability_score + growth_score + safety_score
TotalScore(valuation, profitability, growth, safety) ==
    valuation + profitability + growth + safety

\* views.calculate_stock_scores_complete(stock, indicator, advanced, financials):
\* stock is the stock's code, indicator an Indicator row, advanced an optional
\* AdvancedIndicator row, fin the list of Financial rows.  No call in the try
\* block can raise, so the result is never None.
ScoreRecord(stock, indicator, advanced, fin, valuation, profitability, growth, safety) ==
    [stock               |-> stock,
     indicator           |-> indicator,
     advanced            |-> advanced,
     financials          |-> fin,
     valuation_score     |-> Round1(valuation),
     profitability_score |-> Round1(profitability),
     growth_score        |-> Round1(growth),
     safety_score        |-> Round1(safety),
     total_score         |-> Round1(TotalScore(valuation, profitability, growth, safety)),
     roe                 |-> IF advanced # None THEN Get(advanced).roe ELSE None,
     roa                 |-> IF advanced # None THEN Get(advanced).roa ELSE None,
     is_favorite         |-> FALSE]

calculate_stock_scores_complete(stock, indicator, advanced, fin) ==
    ScoreRecord(stock, indicator, advanced, fin,
                calculate_valuation_score(indicator),
                IF advanced # None THEN calculate_profitability_score(advanced) ELSE 0,
                calculate_growth_score(fin),
                IF advanced # None THEN calculate_safety_score(advanced) ELSE 0)

(***************************************************************************)
(* The score command (calculate_scores, kept in update_stock_data.py):     *)
(* six sub-scores in whole points, their sum and the rank letter.          *)
(***************************************************************************)
Command_calculate_valuation_score(indicator) ==
    LET per == indicator.per
        pbr == indicator.pbr
        per_score ==
            IF ~Truthy(per) THEN 0
            ELSE IF Get(per) < 500 THEN 10
            ELSE IF Get(per) < 800 THEN 8
            ELSE IF Get(per) < 1200 THEN 6
            ELSE IF Get(per) < 1500 THEN 4
            ELSE IF Get(per) < 2000 THEN 2
            ELSE 0
        pbr_score ==
            IF ~Truthy(pbr) THEN 0
            ELSE IF Get(pbr) < 70 THEN 10
            ELSE IF Get(pbr) < 100 THEN 8
            ELSE IF Get(pbr) < 150 THEN 6
            ELSE IF Get(pbr) < 200 THEN 4
            ELSE IF Get(pbr) < 300 THEN 2
            ELSE 0
    IN  Min(per_score + pbr_score, 20)

\* advanced is an AdvancedIndicator row
Command_calculate_profitability_score(advanced) ==
    LET roe    == advanced.roe
        roa    == advanced.roa
        margin == advanced.operating_margin
        roe_score ==
            IF ~Truthy(roe) THEN 0
            ELSE IF Get(roe) > 2500 THEN 8
            ELSE IF Get(roe) > 2000 THEN 7
            ELSE IF Get(roe) > 1500 THEN 6
            ELSE IF Get(roe) > 1000 THEN 4
            ELSE IF Get(roe) > 500 THEN 2
            ELSE 0
        roa_score ==
            IF ~Truthy(roa) THEN 0
            ELSE IF Get(roa) > 1500 THEN 6
            ELSE IF Get(roa) > 1000 THEN 5
            ELSE IF Get(roa) > 700 THEN 4
            ELSE IF Get(roa) > 500 THEN 3
            ELSE IF Get(roa) > 200 THEN 1
            ELSE 0
        margin_score ==
            IF ~Truthy(margin) THEN 0
            ELSE IF Get(margin) > 2000 THEN 6
            ELSE IF Get(margin) > 1500 THEN 5
            ELSE IF Get(margin) > 1000 THEN 4
            ELSE IF Get(margin) > 500 THEN 2
            ELSE IF Get(margin) > 0 THEN 1
            ELSE 0
    IN  Min(roe_score + roa_score + margin_score, 20)

Command_RevenueCagrScore(revenue_cagr) ==
    IF ~CagrTruthy(revenue_cagr) THEN 0
    ELSE IF CagrGt(revenue_cagr, 20) THEN 10
    ELSE IF CagrGt(revenue_cagr, 15) THEN 8
    ELSE IF CagrGt(revenue_cagr, 10) THEN 6
    ELSE IF CagrGt(revenue_cagr, 5) THEN 4
    ELSE IF CagrGt(revenue_cagr, 0) THEN 2
    ELSE 0

Command_ProfitCagrScore(profit_cagr) ==
    IF ~CagrTruthy(profit_cagr) THEN 0
    ELSE IF CagrGt(profit_cagr, 25) THEN 10
    ELSE IF CagrGt(profit_cagr, 20) THEN 8
    ELSE IF CagrGt(profit_cagr, 15) THEN 6
    ELSE IF CagrGt(profit_cagr, 10) THEN 4
    ELSE IF CagrGt(profit_cagr, 5) THEN 2
    ELSE 0

Command_GrowthScoreOf(revenue_cagr, profit_cagr) ==
    IF CagrTruthy(revenue_cagr) /\ CagrCompareRaises(revenue_cagr) THEN 0
    ELSE Min(Command_RevenueCagrScore(revenue_cagr)
                 + Command_ProfitCagrScore(profit_cagr), 20)

Command_calculate_growth_score(fin) ==
    IF Len(fin) < 3 THEN 0
    ELSE Command_GrowthScoreOf(CagrOfThree(TruthyValues(fin, "revenue")),
                               CagrOfThree(PositiveValues(fin, "net_income")))

\* advanced is an AdvancedIndicator row
Command_calculate_safety_score(advanced) ==
    LET equity  == advanced.equity_ratio
        current == advanced.current_ratio
        de      == advanced.debt_equity_ratio
        equity_score ==
            IF ~Truthy(equity) THEN 0
            ELSE IF Get(equity) > 8000 THEN 8
            ELSE IF Get(equity) > 6000 THEN 6
            ELSE IF Get(equity) > 4000 THEN 4
            ELSE IF Get(equity) > 3000 THEN 2
            ELSE 0
        current_score ==
            IF ~Truthy(current) THEN 0
            ELSE IF Get(current) > 300 THEN 6
            ELSE IF Get(current) > 200 THEN 5
            ELSE IF Get(current) > 150 THEN 4
            ELSE IF Get(current) > 120 THEN 2
            ELSE IF Get(current) > 100 THEN 1
            ELSE 0
        de_score ==
            IF de = None THEN 0
            ELSE IF Get(de) < 10 THEN 6
            ELSE IF Get(de) < 30 THEN 5
            ELSE IF Get(de) < 50 THEN 4
            ELSE IF Get(de) < 100 THEN 2
            ELSE IF Get(de) < 200 THEN 1
            ELSE 0
    IN  Min(equity_score + current_score + de_score, 20)

\* Command.count_consecutive_profit_years over a list of Financial rows
RECURSIVE count_consecutive_profit_years_from(_, _)
count_consecutive_profit_years_from(fin, i) ==
    IF i > Len(fin) - 1 THEN 0
    ELSE IF /\ Truthy(fin[i].net_income)
            /\ Truthy(fin[i + 1].net_income)
            /\ Get(fin[i].net_income) > Get(fin[i + 1].net_income)
         THEN 1 + count_consecutive_profit_years_from(fin, i + 1)
         ELSE 0

count_consecutive_profit_years(fin) ==
    IF Len(fin) < 2 THEN 0 ELSE count_consecutive_profit_years_from(fin, 1)

RECURSIVE SumSeq(_)
SumSeq(s) == IF s = <<>> THEN 0 ELSE s[1] + SumSeq(Tail(s))

\* Command.calculate_profit_stability(financials) > 1 / (1 + a/b), that is
\* stdev / mean < a / b for the sample standard deviation, decided on whole
\* numbers: b^2 * n * (n * sum(x^2) - sum(x)^2) < a^2 * (n - 1) * sum(x)^2.
\* The stability is 0 with fewer than 3 values or a mean <= 0.
ProfitStabilityAbove(fin, a, b) ==
    LET profit_values == TruthyValues(fin, "net_income")
        n  == Len(profit_values)
        s  == SumSeq(profit_values)
        s2 == SumSeq([i \in 1..n |-> profit_values[i] * profit_values[i]])
    IN  /\ n >= 3
        /\ s > 0
        /\ b * b * n * (n * s2 - s * s) < a * a * (n - 1) * s * s

\* stock is a Stock row, fin the list of its recent Financial rows
Command_calculate_quality_score(stock, fin) ==
    LET consecutive_years == count_consecutive_profit_years(fin)
        streak_score ==
            IF consecutive_years >= 10 THEN 5
            ELSE IF consecutive_years >= 5 THEN 4
            ELSE IF consecutive_years >= 3 THEN 3
            ELSE IF consecutive_years >= 2 THEN 2
            ELSE IF consecutive_years >= 1 THEN 1
            ELSE 0
        stability_score ==
            IF Len(fin) < 5 THEN 0
            ELSE IF ProfitStabilityAbove(fin, 1, 4) THEN 3     \* stability > 0.8
            ELSE IF ProfitStabilityAbove(fin, 2, 3) THEN 2     \* stability > 0.6
            ELSE IF ProfitStabilityAbove(fin, 3, 2) THEN 1     \* stability > 0.4
            ELSE 0
        data_score ==
            IF stock.data_quality_score > 80 THEN 2
            ELSE IF stock.data_quality_score > 60 THEN 1
            ELSE 0
    IN  Min(streak_score + stability_score + data_score, 10)

Command_calculate_momentum_score(stock) == 5

\* a variant whose breakpoints fall in the lower bucket
RankOfStrict(total_score) ==
    IF total_score > 80 THEN "S"
    ELSE IF total_score > 65 THEN "A"
    ELSE IF total_score > 50 THEN "B"
    ELSE IF total_score > 35 THEN "C"
    ELSE "D"

\* the rank letter of a total score in whole points
RankOf(total_score) ==
    IF total_score >= 80 THEN "S"
    ELSE IF total_score >= 65 THEN "A"
    ELSE IF total_score >= 50 THEN "B"
    ELSE IF total_score >= 35 THEN "C"
    ELSE "D"

\* Command.calculate_comprehensive_score(stock): None without an Indicator row
ComprehensiveRecord(valuation, profitability, growth, safety, quality, momentum) ==
    [valuation_score     |-> valuation,
     profitability_score |-> profitability,
     growth_score        |-> growth,
     safety_score        |-> safety,
     quality_score       |-> quality,
     momentum_score      |-> momentum,
     total_score         |->
         valuation + profitability + growth + safety + quality + momentum,
     rank                |->
         RankOf(valuation + profitability + growth + safety + quality + momentum)]

ComprehensiveScoreOf(stock, latest_indicator, latest_advanced, recent_financials) ==
    IF latest_indicator = None THEN None
    ELSE Some(ComprehensiveRecord(
             Command_calculate_valuation_score(Get(latest_indicator)),
             IF latest_advanced # None
             THEN Command_calculate_profitability_score(Get(latest_advanced)) ELSE 0,
             Command_calculate_growth_score(recent_financials),
             IF latest_advanced # None
             THEN Command_calculate_safety_score(Get(latest_advanced)) ELSE 0,
             Command_calculate_quality_score(stock, recent_financials),
             Command_calculate_momentum_score(stock)))

calculate_comprehensive_score(stock) ==
    ComprehensiveScoreOf(
        stock,
        LatestRowOf({r \in indicators : r.stock = stock.code}),
        LatestRowOf({r \in advanced_indicators : r.stock = stock.code}),
        Take(OrderByYearDesc({r \in financials : r.stock = stock.code}), 5))

(***************************************************************************)
(* StockScreeningForm (stock/forms.py).                                    *)
(*                                                                         *)
(* A form is a record: range maps every min/max field to an optional       *)
(* number, market / sector / custom_formula are texts (the empty text for  *)
(* an empty field), size_category and sort_by strings, limit and the two   *)
(* streak fields optional numbers, exclude_loss_stocks a Boolean,          *)
(* exclude_sectors a set of texts.                                         *)
(***************************************************************************)
RangeField(field, family, attr, op, mult, lo, hi, step) ==
    [field |-> field, family |-> family, attr |-> attr, op |-> op, mult |-> mult,
     lo |-> lo, hi |-> hi, step |-> step]

\* The min/max fields: the column each one bounds (build_complete_queryset),
\* and its validators (MinValueValidator, MaxValueValidator, decimal_places as
\* the step of the field's unit).
IndicatorRangeFields ==
    { RangeField("per_min", "indicator", "per", "gte", 1, Some(1), None, 1),
      RangeField("per_max", "indicator", "per", "lte", 1, Some(1), None, 1),
      RangeField("pbr_min", "indicator", "pbr", "gte", 1, Some(1), None, 1),
      RangeField("pbr_max", "indicator", "pbr", "lte", 1, Some(1), None, 1),
      RangeField("dividend_yield_min", "indicator", "dividend_yield", "gte", 1,
                 Some(0), Some(5000), 1),
      RangeField("dividend_yield_max", "indicator", "dividend_yield", "lte", 1,
                 Some(0), Some(5000), 1),
      RangeField("payout_ratio_min", "indicator", "payout_ratio", "gte", 1,
                 Some(0), Some(20000), 10),
      RangeField("payout_ratio_max", "indicator", "payout_ratio", "lte", 1,
                 Some(0), Some(20000), 10),
      RangeField("price_min", "indicator", "price", "gte", 1, Some(100), None, 100),
      RangeField("price_max", "indicator", "price", "lte", 1, Some(100), None, 100),
      RangeField("market_cap_min", "indicator", "market_cap", "gte", 100000000,
                 Some(1), None, 1),
      RangeField("market_cap_max", "indicator", "market_cap", "lte", 100000000,
                 Some(1), None, 1),
      RangeField("min_trading_volume", "indicator", "volume", "gte", 1,
                 Some(1000), None, 1) }

AdvancedRangeFields ==
    { RangeField("roe_min", "advanced", "roe", "gte", 1, Some(-10000), Some(20000), 1),
      RangeField("roe_max", "advanced", "roe", "lte", 1, Some(-10000), Some(20000), 1),
      RangeField("roa_min", "advanced", "roa", "gte", 1, Some(-10000), Some(10000), 1),
      RangeField("roa_max", "advanced", "roa", "lte", 1, Some(-10000), Some(10000), 1),
      RangeField("roic_min", "advanced", "roic", "gte", 1, Some(-10000), Some(10000), 1),
      RangeField("roic_max", "advanced", "roic", "lte", 1, Some(-10000), Some(10000), 1),
      RangeField("peg_min", "advanced", "peg_ratio", "gte", 1, Some(1), None, 1),
      RangeField("peg_max", "advanced", "peg_ratio", "lte", 1, Some(1), None, 1),
      RangeField("ev_ebitda_min", "advanced", "ev_ebitda", "gte", 1, Some(1), None, 1),
      RangeField("ev_ebitda_max", "advanced", "ev_ebitda", "lte", 1, Some(1), None, 1),
      RangeField("operating_margin_min", "advanced", "operating_margin", "gte", 1,
                 Some(-10000), Some(10000), 1),
      RangeField("operating_margin_max", "advanced", "operating_margin", "lte", 1,
                 Some(-10000), Some(10000), 1),
      RangeField("net_margin_min", "advanced", "net_margin", "gte", 1,
                 Some(-10000), Some(10000), 1),
      RangeField("net_margin_max", "advanced", "net_margin", "lte", 1,
                 Some(-10000), Some(10000), 1),
      RangeField("revenue_growth_min", "advanced", "revenue_growth_1y", "gte", 1,
                 Some(-10000), Some(100000), 1),
      RangeField("revenue_growth_max", "advanced", "revenue_growth_1y", "lte", 1,
                 Some(-10000), Some(100000), 1),
      RangeField("profit_growth_min", "advanced", "net_growth_1y", "gte", 1,
                 Some(-10000), Some(100000), 1),
      RangeField("profit_growth_max", "advanced", "net_growth_1y", "lte", 1,
                 Some(-10000), Some(100000), 1),
      RangeField("equity_ratio_min", "advanced", "equity_ratio", "gte", 1,
                 Some(0), Some(10000), 10),
      RangeField("equity_ratio_max", "advanced", "equity_ratio", "lte", 1,
                 Some(0), Some(10000), 10),
      RangeField("current_ratio_min", "advanced", "current_ratio", "gte", 1,
                 Some(10), None, 1),
      RangeField("current_ratio_max", "advanced", "current_ratio", "lte", 1,
                 Some(10), None, 1),
      RangeField("debt_equity_ratio_max", "advanced", "debt_equity_ratio", "lte", 1,
                 Some(0), None, 1) }

RangeFields == IndicatorRangeFields \cup AdvancedRangeFields

RangeFieldNames == {f.field : f \in RangeFields}

\* choices of the ChoiceFields (market, a sample of the 21 sectors, size,
\* sort_by, limit, and a sample of the 5 excluded sectors)
T_Prime == <<"P", "r", "i", "m", "e">>

T_Standard == <<"S", "t", "a", "n", "d", "a", "r", "d">>

T_Growth == <<"G", "r", "o", "w", "t", "h">>

T_Bank == <<"B", "a", "n", "k">>

T_Transport == <<"T", "r", "a", "n", "s", "p", "o", "r", "t">>

T_Pharma == <<"P", "h", "a", "r", "m", "a">>

T_Insurance == <<"I", "n", "s", "u", "r", "a", "n", "c", "e">>

MarketChoices == {<<>>, T_Prime, T_Standard, T_Growth}

SectorChoices == {<<>>, T_Pharma, T_Transport, T_Bank, T_Insurance}

SizeChoices == {"", "large", "mid", "small", "micro"}

SortChoices ==
    {"total_score", "-total_score", "per", "-per", "pbr", "-pbr", "-roe", "roe",
     "-dividend_yield", "dividend_yield", "price", "-price", "-market_cap",
     "market_cap", "code"}

LimitChoices == {None, Some(20), Some(50), Some(100), Some(200), Some(500)}

ExcludeSectorChoices == {T_Bank, T_Insurance}

\* a field's validators accept the value
RangeFieldValid(f, v) ==
    /\ f.lo # None => v >= Get(f.lo)
    /\ f.hi # None => v <= Get(f.hi)
    /\ v % f.step = 0

\* every field passes its own validation (Form.full_clean before clean())
FieldsValid(form) ==
    /\ \A f \in RangeFields :
          form.range[f.field] # None => RangeFieldValid(f, Get(form.range[f.field]))
    /\ form.consecutive_profit_years # None =>
          Get(form.consecutive_profit_years) \in 1..20
    /\ form.consecutive_dividend_years # None =>
          Get(form.consecutive_dividend_years) \in 1..30
    /\ form.market \in MarketChoices
    /\ form.sector \in SectorChoices
    /\ form.size_category \in SizeChoices
    /\ form.sort_by \in SortChoices \cup {""}
    /\ form.limit \in LimitChoices
    /\ form.exclude_sectors \subseteq ExcludeSectorChoices
    /\ Len(form.custom_formula) <= 1000

\* clean(): the (min, max) pairs whose order is checked
range_fields ==
    { <<"per_min", "per_max">>, <<"pbr_min", "pbr_max">>, <<"roe_min", "roe_max">>,
      <<"roa_min", "roa_max">>, <<"dividend_yield_min", "dividend_yield_max">>,
      <<"price_min", "price_max">>, <<"market_cap_min", "market_cap_max">> }

\* clean(): the fields that count as a search condition
search_fields_range ==
    {"per_min", "per_max", "pbr_min", "pbr_max", "roe_min", "roe_max",
     "roa_min", "roa_max", "dividend_yield_min", "dividend_yield_max",
     "price_min", "price_max", "market_cap_min", "market_cap_max",
     "revenue_growth_min", "profit_growth_min"}

\* a variant that takes every form to hold a condition
HasConditionAlways(form) == TRUE

\* clean(): has_condition (is not None and != '')
has_condition(form) ==
    \/ \E f \in search_fields_range : form.range[f] # None
    \/ form.consecutive_profit_years # None
    \/ form.market # <<>>
    \/ form.sector # <<>>
    \/ form.custom_formula # <<>>

\* clean() adds no error
clean_ok(form) ==
    /\ \A p \in range_fields :
          (form.range[p[1]] # None /\ form.range[p[2]] # None)
              => Get(form.range[p[1]]) <= Get(form.range[p[2]])
    /\ has_condition(form)

\* form.is_valid()
is_valid(form) == FieldsValid(form) /\ clean_ok(form)

(***************************************************************************)
(* views.evaluate_custom_formula: the variable names of the formula are    *)
(* replaced by the text of their values, then the text is searched for     *)
(* the dangerous keywords.  The formula itself is never evaluated.         *)
(***************************************************************************)
DigitChar(d) ==
    CASE d = 0 -> "0" [] d = 1 -> "1" [] d = 2 -> "2" [] d = 3 -> "3" [] d = 4 -> "4"
      [] d = 5 -> "5" [] d = 6 -> "6" [] d = 7 -> "7" [] d = 8 -> "8" [] d = 9 -> "9"

\* str(n) of a natural n
RECURSIVE NatStr(_)
NatStr(n) == IF n < 10 THEN <<DigitChar(n)>> ELSE NatStr(n \div 10) \o <<DigitChar(n % 10)>>

\* str(float(x)) of a Decimal x = v / scale (scale 100 for ratios and prices,
\* 1 for whole amounts), for magnitudes written without an exponent
FloatStr(v, scale) ==
    LET a    == IF v < 0 THEN 0 - v ELSE v
        sign == IF v < 0 THEN <<"-">> ELSE <<>>
        frac == (a % scale) * (100 \div scale)       \* hundredths, 0..99
        fracText ==
            IF frac % 10 = 0 THEN <<DigitChar(frac \div 10)>>
            ELSE <<DigitChar(frac \div 10), DigitChar(frac % 10)>>
    IN  sign \o NatStr(a \div scale) \o <<".">> \o fracText

\* str(float(x) if x else 0)
ValueText(o, scale) == IF Truthy(o) THEN FloatStr(Get(o), scale) ELSE <<"0">>

MatchAt(text, old, i) ==
    /\ i + Len(old) - 1 <= Len(text)
    /\ \A j \in 1..Len(old) : text[i + j - 1] = old[j]

\* text.replace(old, new), from position i on
RECURSIVE ReplaceFrom(_, _, _, _)
ReplaceFrom(text, old, new, i) ==
    IF i > Len(text) THEN <<>>
    ELSE IF MatchAt(text, old, i) THEN new \o ReplaceFrom(text, old, new, i + Len(old))
    ELSE <<text[i]>> \o ReplaceFrom(text, old, new, i + 1)

Replace(text, old, new) == ReplaceFrom(text, old, new, 1)

\* for var, value in variables.items(): safe_formula = safe_formula.replace(...)
RECURSIVE ReplaceAll(_, _)
ReplaceAll(text, variables) ==
    IF variables = <<>> THEN text
    ELSE ReplaceAll(Replace(text, variables[1][1], variables[1][2]), Tail(variables))

dangerous_keywords ==
    { <<"i", "m", "p", "o", "r", "t">>, <<"e", "x", "e", "c">>, <<"e", "v", "a", "l">>,
      <<"_", "_">>, <<"o", "p", "e", "n">>, <<"f", "i", "l", "e">> }

\* the variables dict, in insertion order; indicator is a row, advanced an
\* optional row
FormulaVariables(indicator, advanced) ==
    << << <<"p", "e", "r">>, ValueText(indicator.per, 100) >>,
       << <<"p", "b", "r">>, ValueText(indicator.pbr, 100) >>,
       << <<"d", "i", "v", "i", "d", "e", "n", "d", "_", "y", "i", "e", "l", "d">>,
          ValueText(indicator.dividend_yield, 100) >>,
       << <<"p", "r", "i", "c", "e">>, ValueText(indicator.price, 100) >>,
       << <<"m", "a", "r", "k", "e", "t", "_", "c", "a", "p">>,
          ValueText(indicator.market_cap, 1) >> >>
    \o (IF advanced = None THEN <<>>
        ELSE << << <<"r", "o", "e">>, ValueText(Get(advanced).roe, 100) >>,
                << <<"r", "o", "a">>, ValueText(Get(advanced).roa, 100) >>,
                << <<"r", "o", "i", "c">>, ValueText(Get(advanced).roic, 100) >>,
                << <<"e", "q", "u", "i", "t", "y", "_", "r", "a", "t", "i", "o">>,
                   ValueText(Get(advanced).equity_ratio, 100) >>,
                << <<"c", "u", "r", "r", "e", "n", "t", "_", "r", "a", "t", "i", "o">>,
                   ValueText(Get(advanced).current_ratio, 100) >> >>)

evaluate_custom_formula(formula, indicator, advanced) ==
    LET safe_formula == ReplaceAll(Lower(formula), FormulaVariables(indicator, advanced))
    IN  IF \E keyword \in dangerous_keywords : Contains(safe_formula, keyword)
        THEN FALSE
        ELSE TRUE

(***************************************************************************)
(* views.check_consecutive_profit_years over a list of Financial rows      *)
(***************************************************************************)
\* a variant that lets a year of unchanged profit count as growth
CheckAllowsTies(fin, required_years) ==
    IF Len(fin) < required_years + 1 THEN FALSE
    ELSE LET sorted_financials == OrderByYearDesc({fin[i] : i \in 1..Len(fin)})
         IN  \A i \in 1..required_years :
                LET current  == sorted_financials[i]
                    previous == sorted_financials[i + 1]
                IN  ~ \/ ~Truthy(current.net_income)
                      \/ ~Truthy(previous.net_income)
                      \/ Get(current.net_income) < Get(previous.net_income)

check_consecutive_profit_years(fin, required_years) ==
    IF Len(fin) < required_years + 1 THEN FALSE
    ELSE LET sorted_financials == OrderByYearDesc({fin[i] : i \in 1..Len(fin)})
         IN  \A i \in 1..required_years :
                LET current  == sorted_financials[i]
                    previous == sorted_financials[i + 1]
                IN  ~ \/ ~Truthy(current.net_income)
                      \/ ~Truthy(previous.net_income)
                      \/ Get(current.net_income) <= Get(previous.net_income)

(***************************************************************************)
(* Python dicts whose keys depend on the data: a function from the keys    *)
(* present to their values.                                                *)
(***************************************************************************)
EmptyDict == [k \in {} |-> None]

Entry(k, v) == [x \in {k} |-> v]

\* d.update(e)
Update(d, e) ==
    [k \in DOMAIN d \cup DOMAIN e |-> IF k \in DOMAIN e THEN e[k] ELSE d[k]]

\* d.get(k)
DictGet(d, k) == IF k \in DOMAIN d THEN Some(d[k]) ELSE None

(***************************************************************************)
(* Year-over-year growth, ((current - previous) / previous) * 100 rounded  *)
(* by round(x, 1), in tenths of a percent.  The operands are Decimals, so  *)
(* the quotient is exact to 28 digits and round() takes a tie to the even  *)
(* tenth; with operands of at most seven digits the 28-digit quotient      *)
(* rounds as the exact one does.                                           *)
(***************************************************************************)
\* the integer nearest to n / d (d # 0), a tie to the even integer
RoundDiv(n, d) ==
    LET a  == IF n < 0 THEN -n ELSE n
        b  == IF d < 0 THEN -d ELSE d
        q  == a \div b
        r  == a % b
        m  == IF 2 * r < b THEN q
              ELSE IF 2 * r > b THEN q + 1
              ELSE IF q % 2 = 0 THEN q ELSE q + 1
    IN  IF (n < 0) = (d < 0) THEN m ELSE -m

\* round(((current - previous) / previous) * 100, 1)
GrowthRate(current, previous) == RoundDiv((current - previous) * 1000, previous)

(***************************************************************************)
(* views.calculate_consecutive_profit_years over a list of Financial rows  *)
(***************************************************************************)
RECURSIVE ProfitYearsFrom(_, _)
ProfitYearsFrom(sorted_financials, i) ==
    IF i > Len(sorted_financials) - 1 THEN 0
    ELSE LET current  == sorted_financials[i]
             previous == sorted_financials[i + 1]
         IN  IF /\ Truthy(current.net_income)
                /\ Truthy(previous.net_income)
                /\ Get(current.net_income) > Get(previous.net_income)
             THEN 1 + ProfitYearsFrom(sorted_financials, i + 1)
             ELSE 0

calculate_consecutive_profit_years(fin) ==
    IF Len(fin) < 2 THEN 0
    ELSE ProfitYearsFrom(OrderByYearDesc({fin[i] : i \in 1..Len(fin)}), 1)

(***************************************************************************)
(* views.calculate_additional_metrics(stock, financials, advanced): the    *)
(* additional_data dict.  No operation of the try block can raise.         *)
(***************************************************************************)
calculate_additional_metrics(stock, fin, advanced) ==
    LET latest   == fin[1]
        previous == fin[2]
        revenue_growth ==
            IF /\ Len(fin) >= 2
               /\ Truthy(latest.revenue)
               /\ Truthy(previous.revenue)
               /\ Get(previous.revenue) > 0
            THEN Entry("revenue_growth",
                       GrowthRate(Get(latest.revenue), Get(previous.revenue)))
            ELSE EmptyDict
        profit_growth ==
            IF /\ Len(fin) >= 2
               /\ Truthy(latest.net_income)
               /\ Truthy(previous.net_income)
               /\ Get(previous.net_income) > 0
            THEN Entry("profit_growth",
                       GrowthRate(Get(latest.net_income), Get(previous.net_income)))
            ELSE EmptyDict
        consecutive_years ==
            Entry("consecutive_years", calculate_consecutive_profit_years(fin))
        from_advanced ==
            IF advanced # None
            THEN [equity_ratio     |-> Get(advanced).equity_ratio,
                  current_ratio    |-> Get(advanced).current_ratio,
                  debt_ratio       |-> Get(advanced).debt_equity_ratio,
                  operating_margin |-> Get(advanced).operating_margin,
                  net_margin       |-> Get(advanced).net_margin]
            ELSE EmptyDict
        latest_financial ==
            IF Len(fin) > 0 THEN Entry("latest_financial", fin[1]) ELSE EmptyDict
    IN  Update(Update(Update(Update(revenue_growth, profit_growth),
                             consecutive_years), from_advanced), latest_financial)

(***************************************************************************)
(* views.analyze_financial_performance(financials): the growth_rates list  *)
(***************************************************************************)
\* one rate of the list: growth is None unless both operands are truthy and
\* previous is not 0, and round(growth, 1) if growth else None makes a growth
\* of 0 (current = previous) None as well
AnalysisRate(current, previous) ==
    IF /\ Truthy(current)
       /\ Truthy(previous)
       /\ Get(previous) # 0
       /\ Get(current) # Get(previous)
    THEN Some(GrowthRate(Get(current), Get(previous)))
    ELSE None

analyze_financial_performance(fin) ==
    [growth_rates |->
        [i \in 1..(IF Len(fin) > 1 THEN Len(fin) - 1 ELSE 0) |->
            LET current  == fin[i]
                previous == fin[i + 1]
            IN  [year           |-> current.year,
                 revenue_growth |-> AnalysisRate(current.revenue, previous.revenue),
                 profit_growth  |-> AnalysisRate(current.net_income,
                                                 previous.net_income)]]]

(***************************************************************************)
(* views.build_complete_queryset                                           *)
(***************************************************************************)
\* Indicator.objects.aggregate(Max('date'))['date__max']
latest_indicator_date == MaxDateOf(indicators)

\* AdvancedIndicator.objects.aggregate(Max('date'))['date__max']
latest_advanced_date == MaxDateOf(advanced_indicators)

\* the to_attr lists of the three Prefetch objects, for the stock with this code
latest_indicators(code) ==
    {r \in indicators : r.stock = code /\ Some(r.date) = latest_indicator_date}

latest_advanced_indicators(code) ==
    {r \in advanced_indicators : r.stock = code /\ Some(r.date) = latest_advanced_date}

\* Financial.objects.order_by('-year')[:10], per stock
recent_financials(code) ==
    Take(OrderByYearDesc({r \in financials : r.stock = code}), 10)

\* column attr of a row compared with a form value, as the SQL comparison does
\* it: a NULL column satisfies no comparison
Compare(row, attr, op, bound) ==
    /\ row[attr] # None
    /\ IF op = "gte" THEN Get(row[attr]) >= bound ELSE Get(row[attr]) <= bound

\* the range condition of field f is added to conditions (if data.get(f):)
Configured(data, f) ==
    /\ Truthy(data.range[f.field])
    /\ f.family = "advanced" => latest_advanced_date # None

\* the Q object conditions: the conjunction of every configured condition
Conditions(data, stock) ==
    /\ \A f \in IndicatorRangeFields :
          Configured(data, f) =>
              \E r \in latest_indicators(stock.code) :
                  Compare(r, f.attr, f.op, Get(data.range[f.field]) * f.mult)
    /\ \A f \in AdvancedRangeFields :
          Configured(data, f) =>
              \E r \in latest_advanced_indicators(stock.code) :
                  Compare(r, f.attr, f.op, Get(data.range[f.field]) * f.mult)
    /\ data.market # <<>> => IContains(stock.market, data.market)
    /\ data.sector # <<>> => IContains(stock.sector, data.sector)
    /\ data.size_category # "" => stock.size_category = data.size_category

\* a variant of the loop body that skips a stock without an AdvancedIndicator row
KeptWithAdvanced(data, stock) == latest_advanced_indicators(stock.code) # {}

\* the body of the loop over base_queryset decides to keep the stock
Kept(data, stock) ==
    LET indicator   == CHOOSE r \in latest_indicators(stock.code) : TRUE
        fin         == recent_financials(stock.code)
        advancedSet == latest_advanced_indicators(stock.code)
        advanced    == IF advancedSet = {} THEN None
                       ELSE Some(CHOOSE r \in advancedSet : TRUE)
    IN  /\ ~ /\ data.exclude_loss_stocks
             /\ Len(fin) > 0
             /\ Truthy(fin[1].net_income)
             /\ Get(fin[1].net_income) < 0
        /\ Truthy(data.consecutive_profit_years) =>
              check_consecutive_profit_years(fin, Get(data.consecutive_profit_years))
        /\ Truthy(data.consecutive_dividend_years) =>
              ~ \/ ~Truthy(indicator.dividend_yield)
                \/ Get(indicator.dividend_yield) <= 0
        /\ data.custom_formula # <<>> =>
              evaluate_custom_formula(data.custom_formula, indicator, advanced)

\* the score record appended for a kept stock
StockScores(stock) ==
    LET indicator   == CHOOSE r \in latest_indicators(stock.code) : TRUE
        advancedSet == latest_advanced_indicators(stock.code)
        advanced    == IF advancedSet = {} THEN None
                       ELSE Some(CHOOSE r \in advancedSet : TRUE)
    IN  calculate_stock_scores_complete(stock.code, indicator, advanced,
                                        recent_financials(stock.code))

build_complete_queryset(form) ==
    IF ~is_valid(form) THEN <<>>
    ELSE IF latest_indicator_date = None THEN <<>>
    ELSE LET base_queryset ==
                 OrderByCode({s \in stocks :
                     /\ latest_indicators(s.code) # {}
                     /\ Conditions(form, s)})
             keep(s) == Kept(form, s)
             kept == SelectSeq(base_queryset, keep)
         IN  [i \in 1..Len(kept) |-> StockScores(kept[i])]

(***************************************************************************)
(* views.sort_results: sorted(results_data, key=get_sort_value,            *)
(* reverse=reverse).  A key is a number or float('inf').                   *)
(***************************************************************************)
Finite(v) == [inf |-> FALSE, v |-> v]

Infinite == [inf |-> TRUE, v |-> 0]

KeyLt(a, b) == ~a.inf /\ (b.inf \/ a.v < b.v)

get_sort_value(item, sort_field) ==
    CASE sort_field = "total_score" -> Finite(item.total_score)
      [] sort_field = "per" ->
            IF Truthy(item.indicator.per) THEN Finite(Get(item.indicator.per))
            ELSE Infinite
      [] sort_field = "pbr" ->
            IF Truthy(item.indicator.pbr) THEN Finite(Get(item.indicator.pbr))
            ELSE Infinite
      [] sort_field = "roe" ->
            IF Truthy(item.roe) THEN Finite(Get(item.roe)) ELSE Finite(0)
      [] sort_field = "dividend_yield" ->
            IF Truthy(item.indicator.dividend_yield)
            THEN Finite(Get(item.indicator.dividend_yield)) ELSE Finite(0)
      [] sort_field = "price" ->
            IF Truthy(item.indicator.price) THEN Finite(Get(item.indicator.price))
            ELSE Finite(0)
      [] sort_field = "market_cap" ->
            IF Truthy(item.indicator.market_cap)
            THEN Finite(Get(item.indicator.market_cap)) ELSE Finite(0)
      [] sort_field = "code" -> Finite(item.stock)
      [] OTHER -> Finite(0)

\* a variant that sorts ascending and reverses the list for reverse=True:
\* item goes before the elements of an equal key
RECURSIVE InsertReversed(_, _, _, _)
InsertReversed(sorted, item, sort_field, reverse) ==
    IF sorted = <<>> THEN <<item>>
    ELSE IF IF reverse
            THEN ~KeyLt(get_sort_value(item, sort_field),
                        get_sort_value(sorted[1], sort_field))
            ELSE KeyLt(get_sort_value(item, sort_field),
                       get_sort_value(sorted[1], sort_field))
    THEN <<item>> \o sorted
    ELSE <<sorted[1]>> \o InsertReversed(Tail(sorted), item, sort_field, reverse)

\* item goes behind every element of the sorted list that does not have to
\* follow it: the sort is stable, also with reverse=True
RECURSIVE InsertSorted(_, _, _, _)
InsertSorted(sorted, item, sort_field, reverse) ==
    IF sorted = <<>> THEN <<item>>
    ELSE LET k == get_sort_value(item, sort_field)
             h == get_sort_value(sorted[1], sort_field)
             itemFirst == IF reverse THEN KeyLt(h, k) ELSE KeyLt(k, h)
         IN  IF itemFirst THEN <<item>> \o sorted
             ELSE <<sorted[1]>> \o InsertSorted(Tail(sorted), item, sort_field, reverse)

RECURSIVE SortedBy(_, _, _)
SortedBy(items, sort_field, reverse) ==
    IF items = <<>> THEN <<>>
    ELSE InsertSorted(SortedBy(SubSeq(items, 1, Len(items) - 1), sort_field, reverse),
                      items[Len(items)], sort_field, reverse)

\* sort_by.startswith('-') and sort_by[1:], for the strings a valid form can hold
StartsWithMinus(sort_by) ==
    sort_by \in {"-total_score", "-per", "-pbr", "-roe", "-dividend_yield", "-price",
                 "-market_cap"}

StripMinus(sort_by) ==
    CASE sort_by = "-total_score" -> "total_score"
      [] sort_by = "-per" -> "per"
      [] sort_by = "-pbr" -> "pbr"
      [] sort_by = "-roe" -> "roe"
      [] sort_by = "-dividend_yield" -> "dividend_yield"
      [] sort_by = "-price" -> "price"
      [] sort_by = "-market_cap" -> "market_cap"
      [] OTHER -> sort_by

sort_results(results_data, sort_by) ==
    LET reverse    == StartsWithMinus(sort_by)
        sort_field == IF reverse THEN StripMinus(sort_by) ELSE sort_by
    IN  SortedBy(results_data, sort_field, reverse)

(***************************************************************************)
(* views.screening_view: the results list it hands to the paginator.       *)
(***************************************************************************)
\* request.GET is empty: no field was sent at all
EmptyRange == [f \in RangeFieldNames |-> None]

EmptyForm ==
    [range |-> EmptyRange, market |-> <<>>, sector |-> <<>>, size_category |-> "",
     consecutive_profit_years |-> None, consecutive_dividend_years |-> None,
     custom_formula |-> <<>>, sort_by |-> "", limit |-> None,
     exclude_loss_stocks |-> FALSE, exclude_sectors |-> {}]

\* results_data[:limit]
LimitResults(form, sorted) ==
    IF is_valid(form) /\ form.limit # None /\ Get(form.limit) > 0
    THEN Take(sorted, Get(form.limit))
    ELSE sorted

\* every score record of the queryset is truthy, so results_data is the queryset
screening_results(form) ==
    IF form = EmptyForm THEN <<>>
    ELSE LimitResults(form,
                      sort_results(build_complete_queryset(form),
                                   IF is_valid(form) THEN form.sort_by
                                   ELSE "total_score"))

(***************************************************************************)
(* The data and the requests the screening is explored over.               *)
(***************************************************************************)
\* snapshot dates are 1..MaxDate
MaxDate == 2

Dates == 1..MaxDate

\* A Stock row
StockRow(code, market, sector, size_category, data_quality_score) ==
    [code |-> code, market |-> market, sector |-> sector,
     size_category |-> size_category, data_quality_score |-> data_quality_score,
     is_active |-> TRUE]

\* the subject of the exploration, a large transport company, and its peer, a bank
Subject == StockRow(7203, T_Prime \o <<"/", "D">>, T_Transport, "large", 90)

Peer == StockRow(8306, <<"p", "r", "i", "m", "e">>, T_Bank, "large", 70)

IndTypical ==
    [per |-> Some(700), pbr |-> Some(60), dividend_yield |-> Some(300),
     payout_ratio |-> Some(3000), price |-> Some(100000),
     market_cap |-> Some(1000000000), volume |-> Some(100000)]

IndAbsent == [a \in IndicatorAttrs |-> None]

IndZero == [a \in IndicatorAttrs |-> Some(0)]

AdvTypical ==
    [roe |-> Some(2200), roa |-> Some(1100), roic |-> Some(1200),
     peg_ratio |-> Some(100), ev_ebitda |-> Some(800),
     operating_margin |-> Some(1500), net_margin |-> Some(1000),
     revenue_growth_1y |-> Some(1000), net_growth_1y |-> Some(1200),
     equity_ratio |-> Some(7500), current_ratio |-> Some(220),
     debt_equity_ratio |-> Some(30)]

\* every fundamental ratio in the best tier of the score command
AdvBest ==
    [roe |-> Some(2600), roa |-> Some(1600), roic |-> Some(2000),
     peg_ratio |-> Some(50), ev_ebitda |-> Some(500),
     operating_margin |-> Some(2100), net_margin |-> Some(1500),
     revenue_growth_1y |-> Some(2000), net_growth_1y |-> Some(2500),
     equity_ratio |-> Some(8100), current_ratio |-> Some(310),
     debt_equity_ratio |-> Some(5)]

AdvAbsent == [a \in AdvancedAttrs |-> None]

AdvZero == [a \in AdvancedAttrs |-> Some(0)]

IndicatorProfiles == {IndTypical, IndAbsent, IndZero}

AdvancedProfiles == {AdvTypical, AdvAbsent, AdvZero}

\* Financial rows of stock code for the years 2024, 2023, ..., from the lists
\* of revenues and net incomes (newest first)
FinancialRows(code, revenues, net_incomes) ==
    {FinancialRow(code, 2025 - i, revenues[i], net_incomes[i]) : i \in 1..Len(revenues)}

\* four years of growth: revenue CAGR 16.2 %, net income CAGR 21.2 %, streak 3
FinGrowth(code) ==
    FinancialRows(code, <<Some(157), Some(140), Some(120), Some(100)>>,
                        <<Some(178), Some(150), Some(120), Some(100)>>)

\* a loss in the latest year
FinLoss(code) ==
    FinancialRows(code, <<Some(100), Some(100), Some(100)>>,
                        <<Some(-50), Some(100), Some(90)>>)

\* a year without a reported net income
FinGap(code) ==
    FinancialRows(code, <<Some(120), Some(110), Some(100)>>,
                        <<Some(120), None, Some(100)>>)

FinancialProfiles(code) == {{}, FinGrowth(code), FinLoss(code), FinGap(code)}

\* the Indicator rows of the subject: none, one row, or an old typical row and
\* a newer row
SubjectIndicators ==
    {{}}
    \cup {{IndicatorRow(Subject.code, d, p)} : d \in Dates, p \in IndicatorProfiles}
    \cup {{IndicatorRow(Subject.code, 1, IndTypical),
           IndicatorRow(Subject.code, d, IndZero)} : d \in Dates \ {1}}

SubjectAdvanced ==
    {{}}
    \cup {{AdvancedRow(Subject.code, d, p)} : d \in Dates, p \in AdvancedProfiles}

PeerIndicators ==
    {{}} \cup {{IndicatorRow(Peer.code, d, IndTypical)} : d \in {1, MaxDate}}

PeerAdvanced == {{}, {AdvancedRow(Peer.code, MaxDate, AdvTypical)}}

\* the form as the page sends it: sort_by and limit at their initial values
BaseForm == [EmptyForm EXCEPT !.sort_by = "total_score", !.limit = Some(50)]

\* a form that is valid whatever else it holds: market = 'Prime' matches both stocks
CompanionForm == [BaseForm EXCEPT !.market = T_Prime]

WithRange(form, field, v) == [form EXCEPT !.range[field] = Some(v)]

\* the value of the typical profile for the column of field f, in the field's unit
TypicalValue(f) ==
    IF f.family = "indicator" THEN Get(IndTypical[f.attr]) \div f.mult
    ELSE Get(AdvTypical[f.attr]) \div f.mult

\* bounds tried for field f: the typical value itself (met exactly), a bound the
\* typical value misses, and 0
Candidates(f) ==
    LET delta == IF f.mult > 1 THEN 1 ELSE 100 * f.step
    IN  { TypicalValue(f),
          IF f.op = "gte" THEN TypicalValue(f) + delta ELSE TypicalValue(f) - delta,
          0 }

\* one range field alone, and one range field beside the companion condition
SingleRangeForms ==
    UNION {{WithRange(BaseForm, f.field, v) : v \in Candidates(f)} :
              f \in {g \in RangeFields : g.field \in search_fields_range}}
    \cup {WithRange(BaseForm, f.field, TypicalValue(f)) :
              f \in {g \in RangeFields : g.field \notin search_fields_range}}
    \cup UNION {{WithRange(CompanionForm, f.field, v) : v \in Candidates(f)} :
              f \in {g \in RangeFields : g.field \notin search_fields_range}}

\* five predicates that the typical profiles meet exactly at each bound
FiveForm ==
    [BaseForm EXCEPT !.range["per_max"] = Some(700),
                     !.range["pbr_max"] = Some(60),
                     !.range["dividend_yield_min"] = Some(300),
                     !.range["roe_min"] = Some(2200),
                     !.range["equity_ratio_min"] = Some(7500)]

\* the five predicates with one of them set to miss the typical profiles
FiveForms ==
    { FiveForm,
      WithRange(FiveForm, "per_max", 600),
      WithRange(FiveForm, "pbr_max", 50),
      WithRange(FiveForm, "dividend_yield_min", 400),
      WithRange(FiveForm, "roe_min", 2300),
      WithRange(FiveForm, "equity_ratio_min", 7600) }

F_RoeAbove == <<"R", "O", "E", ">", "1">>

F_Eval == <<"e", "v", "a", "l", "(", "p", "e", "r", ")">>

OtherForms ==
    { EmptyForm, BaseForm, CompanionForm,
      [BaseForm EXCEPT !.market = T_Standard],
      [BaseForm EXCEPT !.sector = T_Bank],
      [BaseForm EXCEPT !.sector = T_Transport],
      [BaseForm EXCEPT !.size_category = "large"],
      [CompanionForm EXCEPT !.size_category = "large"],
      [CompanionForm EXCEPT !.size_category = "small"],
      [BaseForm EXCEPT !.exclude_sectors = {T_Bank}],
      [CompanionForm EXCEPT !.exclude_sectors = {T_Bank}],
      [CompanionForm EXCEPT !.exclude_sectors = {T_Bank, T_Insurance}],
      [BaseForm EXCEPT !.exclude_loss_stocks = TRUE],
      [CompanionForm EXCEPT !.exclude_loss_stocks = TRUE],
      [BaseForm EXCEPT !.consecutive_profit_years = Some(0)],
      [BaseForm EXCEPT !.consecutive_profit_years = Some(1)],
      [BaseForm EXCEPT !.consecutive_profit_years = Some(3)],
      [BaseForm EXCEPT !.consecutive_profit_years = Some(4)],
      [BaseForm EXCEPT !.consecutive_dividend_years = Some(1)],
      [CompanionForm EXCEPT !.consecutive_dividend_years = Some(1)],
      [BaseForm EXCEPT !.custom_formula = F_RoeAbove],
      [BaseForm EXCEPT !.custom_formula = F_Eval],
      [BaseForm EXCEPT !.range["per_min"] = Some(800), !.range["per_max"] = Some(700)],
      [BaseForm EXCEPT !.range["per_min"] = Some(700), !.range["per_max"] = Some(700)],
      [CompanionForm EXCEPT !.sort_by = "-total_score", !.limit = None],
      [CompanionForm EXCEPT !.sort_by = "code", !.limit = Some(20)],
      [CompanionForm EXCEPT !.sort_by = "-per"],
      [CompanionForm EXCEPT !.sort_by = ""],
      [CompanionForm EXCEPT !.sort_by = "name"] }

Forms == SingleRangeForms \cup FiveForms \cup OtherForms

(***************************************************************************)
(* Specification of the screening: the data is any combination of the      *)
(* rows above, and one screening request is served on it.                  *)
(***************************************************************************)
Init ==
    /\ stocks = {Subject, Peer}
    /\ \E si \in SubjectIndicators, pi \in PeerIndicators : indicators = si \cup pi
    /\ \E sa \in SubjectAdvanced, pa \in PeerAdvanced : advanced_indicators = sa \cup pa
    /\ \E sf \in FinancialProfiles(Subject.code) :
          financials = sf \cup FinGrowth(Peer.code)
    /\ request = None
    /\ results = <<>>
    /\ scored = {}
    /\ comprehensive = {}
    /\ financial_analysis = {}
    /\ stocks_data = <<>>
    /\ raw_value = None
    /\ converted = <<>>
    /\ cagr_values = <<>>
    /\ cagr_years = 3
    /\ cagr = <<>>
    /\ today = 1
    /\ fetchers = <<>>
    /\ fetch_count = 0
    /\ screenings = <<>>
    /\ ingest = NoIngest
    /\ listed = <<>>
    /\ alert_rules = <<>>
    /\ alert_logs = <<>>
    /\ monitors = <<>>
    /\ monitor_count = 0
    /\ quality_rules = <<>>
    /\ quality_issues = <<>>
    /\ quality_alerts = <<>>
    /\ quality_count = 0

\* screening_view(request) with request.GET = form
ScreeningView(form) ==
    /\ request = None
    /\ request' = Some(form)
    /\ results' = screening_results(form)
    /\ UNCHANGED <<stocks, indicators, advanced_indicators, financials, scored,
                   comprehensive, financial_analysis, stocks_data, raw_value, converted,
                   cagr_values, cagr_years, cagr, today, fetchers, fetch_count,
                   screenings, ingest, listed, alert_rules, alert_logs, monitors,
                   monitor_count, quality_rules, quality_issues, quality_alerts,
                   quality_count>>

Next == \E form \in Forms : ScreeningView(form)

Spec == Init /\ [][Next]_vars

(***************************************************************************)
(* The data the scoring is explored over: every tier edge of every ratio,  *)
(* and growth rates on both sides of every tier edge.                      *)
(***************************************************************************)
Options(S) == {None} \cup {Some(v) : v \in S}

PerValues ==
    Options({-500, 0, 1, 700, 799, 800, 1199, 1200, 1499, 1500, 1999, 2000, 2499,
             2500, 3000})

PbrValues ==
    Options({-50, 0, 1, 60, 79, 80, 99, 100, 149, 150, 199, 200, 299, 300, 400})

RoeValues ==
    Options({-100, 0, 1, 500, 501, 1000, 1001, 1500, 1501, 2000, 2001, 2200})

RoaValues ==
    Options({-100, 0, 1, 300, 301, 500, 501, 700, 701, 1000, 1001, 1100})

EquityValues ==
    Options({-100, 0, 2000, 2001, 3000, 3001, 4000, 4001, 5000, 5001, 7000, 7001})

CurrentValues ==
    Options({0, 80, 81, 100, 101, 120, 121, 150, 151, 200, 201, 220})

\* the latest revenue and net income of a three-year series that starts at 1000
RevenueEnds ==
    Options({-100, 0, 900, 1000, 1001, 1157, 1158, 1330, 1332, 1520, 1521})

NetIncomeEnds ==
    Options({-100, 0, 1000, 1157, 1158, 1330, 1332, 1520, 1521, 1727, 1729})

FinSeries(code, revenue_end, net_income_end) ==
    FinancialRows(code, <<revenue_end, Some(1200), Some(1000)>>,
                        <<net_income_end, Some(1100), Some(1000)>>)

\* four years with a revenue CAGR of exactly 16 % and a net-income CAGR of
\* exactly 21 % over three years: 24389 / 15625 = 1.16^3, 1771561 / 1000000 = 1.21^3
FinScenario(code) ==
    FinancialRows(code, <<Some(24389), Some(20000), Some(17000), Some(15625)>>,
                        <<Some(1771561), Some(1400000), Some(1200000), Some(1000000)>>)

\* revenue shrinking from a negative start, and two rows only
FinSpecial(code) ==
    { FinancialRows(code, <<Some(1500), Some(1200), Some(-100)>>,
                          <<Some(1500), Some(1200), Some(1000)>>),
      FinancialRows(code, <<Some(1500), Some(1200), Some(1000), Some(0)>>,
                          <<Some(1500), Some(1200), Some(1000), Some(-10)>>),
      FinancialRows(code, <<Some(1500), Some(1000)>>, <<Some(1500), Some(1000)>>),
      FinScenario(code) }

StockData(ind, adv, fin) == [ind |-> ind, adv |-> adv, fin |-> fin]

SubjectData ==
    LET code == Subject.code
        ind  == {IndicatorRow(code, MaxDate, IndTypical)}
        adv  == {AdvancedRow(code, MaxDate, AdvTypical)}
    IN  {StockData({IndicatorRow(code, MaxDate,
                                 [IndTypical EXCEPT !.per = p, !.pbr = q])},
                   {AdvancedRow(code, MaxDate, AdvBest)}, FinGrowth(code)) :
               p \in PerValues, q \in PbrValues}
        \cup {StockData(ind, {AdvancedRow(code, MaxDate,
                                          [AdvTypical EXCEPT !.roe = p, !.roa = q])},
                        FinGrowth(code)) : p \in RoeValues, q \in RoaValues}
        \cup {StockData(ind, {AdvancedRow(code, MaxDate,
                                 [AdvTypical EXCEPT !.equity_ratio = p,
                                                    !.current_ratio = q])},
                        FinGrowth(code)) : p \in EquityValues, q \in CurrentValues}
        \cup {StockData(ind, adv, FinSeries(code, p, q)) :
                  p \in RevenueEnds, q \in NetIncomeEnds}
        \cup {StockData(ind, adv, f) : f \in FinSpecial(code)}
        \cup {StockData(i, a, f) : i \in SubjectIndicators, a \in SubjectAdvanced,
                                   f \in FinancialProfiles(code)}

PeerData ==
    LET code == Peer.code
    IN  {StockData({IndicatorRow(code, MaxDate, i)}, a, FinLoss(code)) :
            i \in { IndTypical,
                    [IndTypical EXCEPT !.per = Some(500), !.pbr = None],
                    [IndTypical EXCEPT !.per = None, !.pbr = Some(50)] },
            a \in PeerAdvanced}

(***************************************************************************)
(* Specification of the scoring: the detail page scores one stock with     *)
(* the views functions, the score command scores every active stock.       *)
(***************************************************************************)
InitScore ==
    /\ stocks = {Subject, Peer}
    /\ \E s \in SubjectData, p \in PeerData :
          /\ indicators = s.ind \cup p.ind
          /\ advanced_indicators = s.adv \cup p.adv
          /\ financials = s.fin \cup p.fin
    /\ request = None
    /\ results = <<>>
    /\ scored = {}
    /\ comprehensive = {}
    /\ financial_analysis = {}
    /\ stocks_data = <<>>
    /\ raw_value = None
    /\ converted = <<>>
    /\ cagr_values = <<>>
    /\ cagr_years = 3
    /\ cagr = <<>>
    /\ today = 1
    /\ fetchers = <<>>
    /\ fetch_count = 0
    /\ screenings = <<>>
    /\ ingest = NoIngest
    /\ listed = <<>>
    /\ alert_rules = <<>>
    /\ alert_logs = <<>>
    /\ monitors = <<>>
    /\ monitor_count = 0
    /\ quality_rules = <<>>
    /\ quality_issues = <<>>
    /\ quality_alerts = <<>>
    /\ quality_count = 0

\* stock_detail_view(request, stock_code): the stock_scores it renders
StockDetailView(stock_code) ==
    LET latest_indicator == LatestRowOf({r \in indicators : r.stock = stock_code})
        latest_advanced  == LatestRowOf({r \in advanced_indicators : r.stock = stock_code})
        fin == Take(OrderByYearDesc({r \in financials : r.stock = stock_code}), 10)
    IN  /\ \E s \in stocks : s.code = stock_code
        /\ scored' =
              IF latest_indicator = None THEN scored
              ELSE scored \cup {calculate_stock_scores_complete(
                                    stock_code, Get(latest_indicator), latest_advanced, fin)}
        /\ financial_analysis' = financial_analysis \cup
              {[stock |-> stock_code, analysis |-> analyze_financial_performance(fin)]}
        /\ UNCHANGED <<stocks, indicators, advanced_indicators, financials, request,
                       results, comprehensive, stocks_data, raw_value, converted,
                       cagr_values, cagr_years, cagr, today, fetchers, fetch_count,
                       screenings, ingest, listed, alert_rules, alert_logs, monitors,
                       monitor_count, quality_rules, quality_issues, quality_alerts,
                       quality_count>>

\* Command.handle of the score command: the score_data handed to save_score_data
Command_handle ==
    /\ comprehensive' =
          {[stock |-> s.code, score_data |-> Get(calculate_comprehensive_score(s))] :
              s \in {t \in stocks : t.is_active /\ calculate_comprehensive_score(t) # None}}
    /\ UNCHANGED <<stocks, indicators, advanced_indicators, financials, request,
                   results, scored, financial_analysis, stocks_data, raw_value, converted,
                   cagr_values, cagr_years, cagr, today, fetchers, fetch_count,
                   screenings, ingest, listed, alert_rules, alert_logs, monitors,
                   monitor_count, quality_rules, quality_issues, quality_alerts,
                   quality_count>>

NextScore ==
    \/ \E s \in stocks : StockDetailView(s.code)
    \/ Command_handle

SpecScore == InitScore /\ [][NextScore]_vars

(***************************************************************************)
(* The data the streak and the growth rates are explored over: annual      *)
(* series with losses, zeros and unreported values, with and without a     *)
(* missing fiscal year.                                                    *)
(***************************************************************************)
AnnualValues == {None, Some(-50), Some(0), Some(100), Some(120)}

AnnualSeries ==
    {<<>>}
    \cup {<<a>> : a \in AnnualValues}
    \cup {<<a, b>> : a \in AnnualValues, b \in AnnualValues}
    \cup {<<a, b, c>> : a \in AnnualValues, b \in AnnualValues, c \in AnnualValues}
    \cup { <<Some(130), Some(120), Some(110), Some(100)>>,
           <<Some(100), Some(120), Some(110)>>,
           <<Some(140), Some(130), Some(120), Some(110), Some(100)>> }

\* the fiscal year of the i-th row (newest first) when no annual report
\* exists for the year after the first gap rows; gap = 0: every year reported
FiscalYear(i, gap) == IF gap > 0 /\ i > gap THEN 2024 - i ELSE 2025 - i

Gaps == 0..2

\* the Financial rows of a series in one column, the other column steady
AnnualRows(code, column, series, gap) ==
    {FinancialRow(code, FiscalYear(i, gap),
                  IF column = "revenue" THEN series[i] ELSE Some(100),
                  IF column = "net_income" THEN series[i] ELSE Some(100)) :
        i \in 1..Len(series)}

\* forms that ask for k years of consecutive profit growth
StreakForms == {[BaseForm EXCEPT !.consecutive_profit_years = Some(k)] : k \in 1..4}

\* the stocks parameter of the comparison page, parsed; 9999 is no stock
ComparisonCodes ==
    { <<Subject.code>>, <<Subject.code, Peer.code>>, <<9999, Subject.code>> }

(***************************************************************************)
(* Specification of the comparison: the subject has any of the series      *)
(* above; the comparison page, the detail page and a screening by streak   *)
(* are served on it.                                                       *)
(***************************************************************************)
InitCompare ==
    /\ stocks = {Subject, Peer}
    /\ indicators = {IndicatorRow(Subject.code, MaxDate, IndTypical),
                     IndicatorRow(Peer.code, MaxDate, IndTypical)}
    /\ advanced_indicators = {AdvancedRow(Subject.code, MaxDate, AdvTypical)}
    /\ \E column \in {"revenue", "net_income"}, series \in AnnualSeries, gap \in Gaps :
          financials = AnnualRows(Subject.code, column, series, gap)
                          \cup FinGrowth(Peer.code)
    /\ request = None
    /\ results = <<>>
    /\ scored = {}
    /\ comprehensive = {}
    /\ financial_analysis = {}
    /\ stocks_data = <<>>
    /\ raw_value = None
    /\ converted = <<>>
    /\ cagr_values = <<>>
    /\ cagr_years = 3
    /\ cagr = <<>>
    /\ today = 1
    /\ fetchers = <<>>
    /\ fetch_count = 0
    /\ screenings = <<>>
    /\ ingest = NoIngest
    /\ listed = <<>>
    /\ alert_rules = <<>>
    /\ alert_logs = <<>>
    /\ monitors = <<>>
    /\ monitor_count = 0
    /\ quality_rules = <<>>
    /\ quality_issues = <<>>
    /\ quality_alerts = <<>>
    /\ quality_count = 0

\* the record comparison_view appends to stocks_data for one stock code, or
\* nothing for a code without a Stock row or without an Indicator row
ComparisonEntry(stock_code) ==
    LET latest_indicator == LatestRowOf({r \in indicators : r.stock = stock_code})
        latest_advanced  == LatestRowOf({r \in advanced_indicators : r.stock = stock_code})
        fin == Take(OrderByYearDesc({r \in financials : r.stock = stock_code}), 5)
    IN  IF (\A s \in stocks : s.code # stock_code) \/ latest_indicator = None
        THEN <<>>
        ELSE <<Update(calculate_stock_scores_complete(
                          stock_code, Get(latest_indicator), latest_advanced, fin),
                      calculate_additional_metrics(stock_code, fin, latest_advanced))>>

RECURSIVE ComparisonEntries(_)
ComparisonEntries(stock_codes) ==
    IF stock_codes = <<>> THEN <<>>
    ELSE ComparisonEntry(Head(stock_codes)) \o ComparisonEntries(Tail(stock_codes))

\* comparison_view(request) with the stocks parameter parsed to stock_codes:
\* the stocks_data list its loop builds
ComparisonView(stock_codes) ==
    /\ stock_codes # <<>>
    /\ stocks_data = <<>>
    /\ stocks_data' = ComparisonEntries(Take(stock_codes, 20))
    /\ UNCHANGED <<stocks, indicators, advanced_indicators, financials, request,
                   results, scored, comprehensive, financial_analysis, raw_value,
                   converted, cagr_values, cagr_years, cagr, today, fetchers,
                   fetch_count, screenings, ingest, listed, alert_rules, alert_logs,
                   monitors, monitor_count, quality_rules, quality_issues,
                   quality_alerts, quality_count>>

NextCompare ==
    \/ \E stock_codes \in ComparisonCodes : ComparisonView(stock_codes)
    \/ \E s \in stocks : StockDetailView(s.code)
    \/ \E form \in StreakForms : ScreeningView(form)

SpecCompare == InitCompare /\ [][NextCompare]_vars

(***************************************************************************)
(* The inputs calculate_cagr is explored over: series of up to three       *)
(* amounts, among them a loss, zero, and the two neighbours 2^53 and       *)
(* 2^53 + 1 (9007199254740992 and 9007199254740993), and 0 to 3 years.     *)
(***************************************************************************)
CagrAmounts ==
    {AmountOf(n) : n \in {-100, 0, 50, 100, 200}}
    \cup {Amount(FALSE, Power(2, 23), 0), Amount(FALSE, Power(2, 23), 1)}

CagrSeries ==
    {<<>>}
    \cup {<<a>> : a \in CagrAmounts}
    \cup {<<a, b>> : a \in CagrAmounts, b \in CagrAmounts}
    \cup {<<a, b, c>> : a \in CagrAmounts, b \in CagrAmounts, c \in CagrAmounts}

CagrYears == 0..3

(***************************************************************************)
(* Specification of the growth rate: calculate_cagr is applied to one of   *)
(* the inputs above.                                                       *)
(***************************************************************************)
InitCagr ==
    /\ stocks = {}
    /\ indicators = {}
    /\ advanced_indicators = {}
    /\ financials = {}
    /\ request = None
    /\ results = <<>>
    /\ scored = {}
    /\ comprehensive = {}
    /\ financial_analysis = {}
    /\ stocks_data = <<>>
    /\ raw_value = None
    /\ converted = <<>>
    /\ cagr_values \in CagrSeries
    /\ cagr_years \in CagrYears
    /\ cagr = <<>>
    /\ today = 1
    /\ fetchers = <<>>
    /\ fetch_count = 0
    /\ screenings = <<>>
    /\ ingest = NoIngest
    /\ listed = <<>>
    /\ alert_rules = <<>>
    /\ alert_logs = <<>>
    /\ monitors = <<>>
    /\ monitor_count = 0
    /\ quality_rules = <<>>
    /\ quality_issues = <<>>
    /\ quality_alerts = <<>>
    /\ quality_count = 0

\* cagr = calculate_cagr(values, years)
CalculateCagr ==
    /\ cagr = <<>>
    /\ cagr' = <<calculate_cagr(cagr_values, cagr_years)>>
    /\ UNCHANGED <<stocks, indicators, advanced_indicators, financials, request,
                   results, scored, comprehensive, financial_analysis, stocks_data,
                   raw_value, converted, cagr_values, cagr_years, today, fetchers,
                   fetch_count, screenings, ingest, listed, alert_rules, alert_logs,
                   monitors, monitor_count, quality_rules, quality_issues,
                   quality_alerts, quality_count>>

NextCagr == CalculateCagr

SpecCagr == InitCagr /\ [][NextCagr]_vars

(***************************************************************************)
(* decimal.Decimal.  A Decimal is a sign, a coefficient (its decimal       *)
(* digits, most significant first, without leading zeros), an exponent,    *)
(* and for the special values their name.                                  *)
(***************************************************************************)
Dec(sign, digits, exp, special) ==
    [sign |-> sign, digits |-> digits, exp |-> exp, special |-> special]

DigitChars == {"0", "1", "2", "3", "4", "5", "6", "7", "8", "9"}

DigitOf(c) == CHOOSE d \in 0..9 : DigitChar(d) = c

IsDigits(t) == \A i \in 1..Len(t) : t[i] \in DigitChars

DigitsOf(t) == [i \in 1..Len(t) |-> DigitOf(t[i])]

DigitsText(ds) == [i \in 1..Len(ds) |-> DigitChar(ds[i])]

Zeros(n) == [i \in 1..n |-> "0"]

\* int(digits) of a run of at most nine digits
RECURSIVE NatOf(_)
NatOf(ds) ==
    IF ds = <<>> THEN 0 ELSE 10 * NatOf(SubSeq(ds, 1, Len(ds) - 1)) + ds[Len(ds)]

\* the digits of str(int(text)): without leading zeros, "0" for zero
RECURSIVE StripZeros(_)
StripZeros(ds) ==
    IF ds = <<>> THEN <<0>>
    ELSE IF ds[1] = 0 /\ Len(ds) > 1 THEN StripZeros(Tail(ds))
    ELSE ds

\* text.find(c) + 1: the first position of c in text, 0 without one
IndexOf(t, c) ==
    IF \E i \in 1..Len(t) : t[i] = c
    THEN CHOOSE i \in 1..Len(t) : t[i] = c /\ \A j \in 1..(i - 1) : t[j] # c
    ELSE 0

\* text.strip() for blanks
RECURSIVE StripSpaces(_)
StripSpaces(t) ==
    IF t # <<>> /\ t[1] = " " THEN StripSpaces(Tail(t))
    ELSE IF t # <<>> /\ t[Len(t)] = " " THEN StripSpaces(SubSeq(t, 1, Len(t) - 1))
    ELSE t

RemoveUnderscores(t) ==
    LET keep(c) == c # "_"
    IN  SelectSeq(t, keep)

StartsWith(t, prefix) ==
    Len(t) >= Len(prefix) /\ SubSeq(t, 1, Len(prefix)) = prefix

(***************************************************************************)
(* Decimal(text) for an ASCII text with an exponent of at most nine        *)
(* digits: surrounding blanks are stripped, underscores are dropped,       *)
(* letters are read in any case.  None stands for the InvalidOperation     *)
(* (ConversionSyntax) a text raises that is no number.  The conversion is  *)
(* exact: no digit is rounded away.  A NaN keeps no diagnostic digits here. *)
(***************************************************************************)
\* 1 for a text that starts with a minus sign
SignOf(t) == IF t # <<>> /\ t[1] = "-" THEN 1 ELSE 0

\* a text without its leading sign
Unsigned(t) == IF t # <<>> /\ t[1] \in {"+", "-"} THEN Tail(t) ELSE t

\* the text before the first c, all of it without one
Before(t, c) == IF IndexOf(t, c) = 0 THEN t ELSE SubSeq(t, 1, IndexOf(t, c) - 1)

\* the text after the first c, empty without one
After(t, c) == IF IndexOf(t, c) = 0 THEN <<>> ELSE SubSeq(t, IndexOf(t, c) + 1, Len(t))

\* the number of a sign, the digits before and after the point, and the
\* sign and the digits of the exponent
DecimalOfDigits(sign, intpart, fracpart, has_exp, exp_sign, exp_digits) ==
    IF /\ IsDigits(intpart)
       /\ IsDigits(fracpart)
       /\ Len(intpart) + Len(fracpart) >= 1
       /\ has_exp => (exp_digits # <<>> /\ IsDigits(exp_digits))
    THEN Some(Dec(sign, StripZeros(DigitsOf(intpart \o fracpart)),
                  (IF exp_sign = 1 THEN -NatOf(DigitsOf(exp_digits))
                   ELSE NatOf(DigitsOf(exp_digits))) - Len(fracpart), ""))
    ELSE None

\* the number of a sign, a mantissa and the text after the "e"
DecimalOfParts(sign, mant, has_exp, expo) ==
    DecimalOfDigits(sign, Before(mant, "."), After(mant, "."),
                    has_exp, SignOf(expo), Unsigned(expo))

\* the value of a sign and a text in lower case without its sign
DecimalOfBody(sign, body) ==
    IF body \in {<<"i", "n", "f">>, <<"i", "n", "f", "i", "n", "i", "t", "y">>}
    THEN Some(Dec(sign, <<0>>, 0, "Infinity"))
    ELSE IF StartsWith(body, <<"n", "a", "n">>)
            /\ IsDigits(SubSeq(body, 4, Len(body)))
    THEN Some(Dec(sign, <<0>>, 0, "NaN"))
    ELSE IF StartsWith(body, <<"s", "n", "a", "n">>)
            /\ IsDigits(SubSeq(body, 5, Len(body)))
    THEN Some(Dec(sign, <<0>>, 0, "sNaN"))
    ELSE DecimalOfParts(sign, Before(body, "e"), IndexOf(body, "e") # 0,
                        After(body, "e"))

DecimalOfStripped(t) == DecimalOfBody(SignOf(t), Unsigned(t))

DecimalOfText(text) == DecimalOfStripped(Lower(StripSpaces(RemoveUnderscores(text))))

\* a variant of str() that writes every Decimal without an exponent
DecimalStrPlain(d) ==
    LET sign == IF d.sign = 1 THEN <<"-">> ELSE <<>>
        n    == Len(d.digits)
    IN  IF d.special # "" THEN sign \o <<"N", "a", "N">>
        ELSE IF d.exp >= 0 THEN sign \o DigitsText(d.digits) \o Zeros(d.exp)
        ELSE IF n + d.exp > 0
        THEN sign \o DigitsText(SubSeq(d.digits, 1, n + d.exp)) \o <<".">>
                  \o DigitsText(SubSeq(d.digits, n + d.exp + 1, n))
        ELSE sign \o <<"0", ".">> \o Zeros(-(n + d.exp)) \o DigitsText(d.digits)

\* str(d), Decimal.__str__: scientific notation when the exponent is above 0
\* or the number has more than six leading zeros after the point
DecimalStr(d) ==
    LET sign       == IF d.sign = 1 THEN <<"-">> ELSE <<>>
        n          == Len(d.digits)
        leftdigits == d.exp + n
        dotplace   == IF d.exp <= 0 /\ leftdigits > -6 THEN leftdigits ELSE 1
        intpart    == IF dotplace <= 0 THEN <<"0">>
                      ELSE IF dotplace >= n
                      THEN DigitsText(d.digits) \o Zeros(dotplace - n)
                      ELSE DigitsText(SubSeq(d.digits, 1, dotplace))
        fracpart   == IF dotplace <= 0
                      THEN <<".">> \o Zeros(-dotplace) \o DigitsText(d.digits)
                      ELSE IF dotplace >= n THEN <<>>
                      ELSE <<".">> \o DigitsText(SubSeq(d.digits, dotplace + 1, n))
        shown      == leftdigits - dotplace
        exponent   == IF shown = 0 THEN <<>>
                      ELSE IF shown > 0 THEN <<"E", "+">> \o NatStr(shown)
                      ELSE <<"E", "-">> \o NatStr(-shown)
    IN  IF d.special = "Infinity"
        THEN sign \o <<"I", "n", "f", "i", "n", "i", "t", "y">>
        ELSE IF d.special = "NaN" THEN sign \o <<"N", "a", "N">>
        ELSE IF d.special = "sNaN" THEN sign \o <<"s", "N", "a", "N">>
        ELSE sign \o intpart \o fracpart \o exponent

(***************************************************************************)
(* Decimal arithmetic in the default context of the decimal module, which  *)
(* no code of the repository changes: 28 digits of precision, rounding     *)
(* half-even, exponents up to 999999, and the traps InvalidOperation,      *)
(* DivisionByZero and Overflow.                                            *)
(***************************************************************************)
DefaultContext == [prec |-> 28, Emax |-> 999999]

\* the digits of int(digits) + 1
RECURSIVE IncDigits(_)
IncDigits(ds) ==
    IF ds = <<>> THEN <<1>>
    ELSE IF ds[Len(ds)] < 9
    THEN SubSeq(ds, 1, Len(ds) - 1) \o <<ds[Len(ds)] + 1>>
    ELSE IncDigits(SubSeq(ds, 1, Len(ds) - 1)) \o <<0>>

\* a finite Decimal rounded to the precision of the context (Decimal._fix):
\* the digits beyond the precision are rounded half-even into the last kept
\* digit, and a carry out of the first digit drops one more digit
RoundToContext(d) ==
    LET prec    == DefaultContext.prec
        n       == Len(d.digits)
        kept    == SubSeq(d.digits, 1, prec)
        rest    == SubSeq(d.digits, prec + 1, n)
        above   == rest[1] > 5 \/ (rest[1] = 5 /\ \E i \in 2..Len(rest) : rest[i] # 0)
        tie     == rest[1] = 5 /\ \A i \in 2..Len(rest) : rest[i] = 0
        up      == above \/ (tie /\ kept[prec] % 2 = 1)
        rounded == IF up THEN IncDigits(kept) ELSE kept
    IN  IF n <= prec THEN d
        ELSE IF Len(rounded) > prec
        THEN Dec(d.sign, SubSeq(rounded, 1, prec), d.exp + (n - prec) + 1, "")
        ELSE Dec(d.sign, rounded, d.exp + (n - prec), "")

IsZero(d) == d.special = "" /\ d.digits = <<0>>

\* the exponent of the first digit of a finite Decimal (Decimal.adjusted)
Adjusted(d) == d.exp + Len(d.digits) - 1

\* abs(d): the exception it raises, or its value.  The result is rounded to
\* the context; a signalling NaN raises InvalidOperation, and a result whose
\* first digit lies above Emax raises decimal.Overflow.  (A result below
\* 10^Emin is subnormal and may lose digits without an exception; all that
\* is read of it is that it is not above 10^15.)
DecimalAbs(d) ==
    LET rounded == RoundToContext(d)
    IN  IF d.special = "sNaN" THEN [exception |-> "InvalidOperation", value |-> d]
        ELSE IF d.special # "" THEN [exception |-> "", value |-> [d EXCEPT !.sign = 0]]
        ELSE IF ~IsZero(rounded) /\ Adjusted(rounded) > DefaultContext.Emax
        THEN [exception |-> "Overflow", value |-> d]
        ELSE [exception |-> "", value |-> [rounded EXCEPT !.sign = 0]]

\* the magnitude of a finite Decimal is above 10^15, compared exactly
MagnitudeAbove15(d) ==
    /\ ~IsZero(d)
    /\ \/ Adjusted(d) > 15
       \/ /\ Adjusted(d) = 15
          /\ ~(d.digits[1] = 1 /\ \A i \in 2..Len(d.digits) : d.digits[i] = 0)

\* d > Decimal('1e15') for a non-negative d: the exception it raises, or its
\* value.  An order comparison with a NaN raises InvalidOperation.
DecimalGt15(d) ==
    IF d.special \in {"NaN", "sNaN"} THEN [exception |-> "InvalidOperation", value |-> FALSE]
    ELSE IF d.special = "Infinity" THEN [exception |-> "", value |-> TRUE]
    ELSE [exception |-> "", value |-> MagnitudeAbove15(d)]

(***************************************************************************)
(* The values handed to safe_decimal_convert.  A float and an int are kept *)
(* by their type and the text str() gives for them, a str by its text, a   *)
(* Decimal by its value; None is None.                                     *)
(***************************************************************************)
PyFloat(text) == [type |-> "float", text |-> text, dec |-> Dec(0, <<0>>, 0, "")]

PyInt(text) == [type |-> "int", text |-> text, dec |-> Dec(0, <<0>>, 0, "")]

PyStr(text) == [type |-> "str", text |-> text, dec |-> Dec(0, <<0>>, 0, "")]

PyDecimal(d) == [type |-> "Decimal", text |-> <<>>, dec |-> d]

\* str(value)
Str(v) == IF v.type = "Decimal" THEN DecimalStr(v.dec) ELSE v.text

\* the number a float or an int is: the text of a float is its shortest
\* decimal that reads back as the same float, so it lies on the same side of
\* 10^15, itself a float, as the float does
NumberOf(v) == Get(DecimalOfText(v.text))

\* a < b for the digits of two naturals without leading zeros
DigitsLt(a, b) ==
    \/ Len(a) < Len(b)
    \/ /\ Len(a) = Len(b)
       /\ \E i \in 1..Len(a) :
             a[i] < b[i] /\ \A j \in 1..(i - 1) : a[j] = b[j]

\* a numpy ufunc takes an int from -2^63 to 2^64 - 1 (int64 or uint64); any
\* other int becomes an object array, for which np.isnan and np.isinf
\* raise TypeError
NumpyAccepts(v) ==
    LET d == NumberOf(v)
    IN  v.type = "int" =>
            IF d.sign = 1
            THEN ~DigitsLt(<<9, 2, 2, 3, 3, 7, 2, 0, 3, 6, 8, 5, 4, 7, 7, 5, 8, 0, 8>>,
                           d.digits)
            ELSE DigitsLt(d.digits,
                          <<1, 8, 4, 4, 6, 7, 4, 4, 0, 7, 3, 7, 0, 9, 5, 5, 1, 6, 1, 6>>)

(***************************************************************************)
(* StockDataFetcher.safe_decimal_convert (AdvancedDataFetcher has the same *)
(* code): the value it returns, or the exception that leaves it.           *)
(***************************************************************************)
Return(r) == [exception |-> "", result |-> r]

Raise(e) == [exception |-> e, result |-> None]

\* except (InvalidOperation, ValueError, TypeError, OverflowError)
Caught == {"InvalidOperation", "ValueError", "TypeError", "OverflowError"}

\* the except clause of lines 58-59
Except(e) == IF e \in Caught THEN Return(None) ELSE Raise(e)

\* pd.isna(value): a float NaN or a Decimal NaN
PdIsna(v) ==
    \/ v.type = "float" /\ NumberOf(v).special = "NaN"
    \/ v.type = "Decimal" /\ v.dec.special = "NaN"

\* isinstance(value, (int, float)) and np.isnan(value); a TypeError passes
NpIsnan(v) ==
    /\ v.type \in {"int", "float"}
    /\ NumpyAccepts(v)
    /\ NumberOf(v).special = "NaN"

\* isinstance(value, str) and value.lower() in ['nan', 'null', '', 'none']
StringNan(v) ==
    /\ v.type = "str"
    /\ Lower(v.text) \in {<<"n", "a", "n">>, <<"n", "u", "l", "l">>, <<>>,
                          <<"n", "o", "n", "e">>}

\* np.isinf(value) or abs(value) > 1e15; a TypeError of np.isinf passes
TooLarge(v) ==
    /\ v.type \in {"int", "float"}
    /\ NumpyAccepts(v)
    /\ NumberOf(v).special = "Infinity" \/ MagnitudeAbove15(NumberOf(v))

\* if <above>: return None; return decimal_value
FilterAbove(decimal_value, above) ==
    IF above.exception # "" THEN Except(above.exception)
    ELSE IF above.value THEN Return(None)
    ELSE Return(Some(PyDecimal(decimal_value)))

\* abs(decimal_value) > Decimal('1e15')
FilterDecimal(decimal_value, absolute) ==
    IF absolute.exception # "" THEN Except(absolute.exception)
    ELSE FilterAbove(decimal_value, DecimalGt15(absolute.value))

\* decimal_value = Decimal(str(value)) and what follows it
ConvertParsed(parsed) ==
    IF parsed = None THEN Except("InvalidOperation")
    ELSE FilterDecimal(Get(parsed), DecimalAbs(Get(parsed)))

ConvertValue(v) ==
    IF PdIsna(v) THEN Return(None)
    ELSE IF NpIsnan(v) THEN Return(None)
    ELSE IF StringNan(v) THEN Return(None)
    ELSE IF TooLarge(v) THEN Return(None)
    ELSE ConvertParsed(DecimalOfText(Str(v)))

safe_decimal_convert(value) ==
    IF value = None THEN Return(None) ELSE ConvertValue(Get(value))

(***************************************************************************)
(* The inputs the normalizer is explored over.                             *)
(***************************************************************************)
\* str(x) of the floats: NaN, the infinities, and numbers around 10^15
FloatTexts ==
    { <<"n", "a", "n">>, <<"i", "n", "f">>, <<"-", "i", "n", "f">>, <<"0", ".", "0">>,
      <<"-", "0", ".", "0">>, <<"1", ".", "5">>, <<"-", "2", ".", "5">>,
      <<"1", "2", ".", "3", "4">>, <<"1", "e", "-", "0", "7">>,
      <<"9", "9", "9", "9", "9", "9", "9", "9", "9", "9", "9", "9", "9", "9", "9", ".", "9">>,
      <<"1", "0", "0", "0", "0", "0", "0", "0", "0", "0", "0", "0", "0", "0", "0", "0", ".", "0">>,
      <<"-", "1", "0", "0", "0", "0", "0", "0", "0", "0", "0", "0", "0", "0", "0", "0", "0", ".", "0">>,
      <<"1", "0", "0", "0", "0", "0", "0", "0", "0", "0", "0", "0", "0", "0", "0", "0", ".", "1">>,
      <<"1", "e", "+", "1", "6">>, <<"-", "1", "e", "+", "1", "6">>,
      <<"1", ".", "7", "9", "7", "6", "9", "3", "1", "3", "4", "8", "6", "2", "3", "1", "5", "7", "e", "+", "3", "0", "8">>,
      <<"5", "e", "-", "3", "2", "4">> }

\* str(n) of the ints, around 10^15 and around the limits of numpy
IntTexts ==
    { <<"0">>, <<"1">>, <<"-", "7">>,
      <<"9", "9", "9", "9", "9", "9", "9", "9", "9", "9", "9", "9", "9", "9", "9">>,
      <<"1", "0", "0", "0", "0", "0", "0", "0", "0", "0", "0", "0", "0", "0", "0", "0">>,
      <<"-", "1", "0", "0", "0", "0", "0", "0", "0", "0", "0", "0", "0", "0", "0", "0", "0">>,
      <<"1", "0", "0", "0", "0", "0", "0", "0", "0", "0", "0", "0", "0", "0", "0", "1">>,
      <<"-", "1", "0", "0", "0", "0", "0", "0", "0", "0", "0", "0", "0", "0", "0", "0", "1">>,
      <<"1", "8", "4", "4", "6", "7", "4", "4", "0", "7", "3", "7", "0", "9", "5", "5", "1", "6", "1", "5">>,
      <<"1", "8", "4", "4", "6", "7", "4", "4", "0", "7", "3", "7", "0", "9", "5", "5", "1", "6", "1", "6">>,
      <<"-", "9", "2", "2", "3", "3", "7", "2", "0", "3", "6", "8", "5", "4", "7", "7", "5", "8", "0", "9">>,
      <<"1", "0", "0", "0", "0", "0", "0", "0", "0", "0", "0", "0", "0", "0", "0", "0", "0", "0", "0", "0", "0">> }

\* the strings: missing-value words, texts that are no number, numbers around
\* 10^15 of up to 30 digits, and numbers at the limits of the exponent
StrTexts ==
    { <<"n", "a", "n">>, <<"N", "a", "N">>, <<"N", "A", "N">>, <<"n", "u", "l", "l">>,
      <<"N", "U", "L", "L">>, <<"N", "u", "l", "l">>, <<"n", "o", "n", "e">>,
      <<"N", "o", "n", "e">>, <<"N", "O", "N", "E">>, <<>>, <<" ">>, <<"a", "b", "c">>,
      <<"N", "/", "A">>, <<"-">>, <<"1", ",", "0", "0", "0">>, <<"1", "2", "a", "b", "c">>,
      <<"0", "x", "1", "0">>, <<"-", "-", "1">>, <<"1", "e">>, <<".">>, <<"1", "2", ".", "5">>,
      <<" ", "1", "2", ".", "5", " ">>, <<"1", "_", "0", "0", "0">>, <<".", "5">>, <<"5", ".">>,
      <<"0">>, <<"-", "0">>, <<"0", ".", "0", "0", "0", "0", "0", "0", "1">>,
      <<"1", "E", "+", "3">>, <<"1", "e", "1", "5">>, <<"1", "E", "+", "1", "5">>,
      <<"-", "1", "e", "1", "5">>, <<"1", "e", "1", "6">>,
      <<"1", "0", "0", "0", "0", "0", "0", "0", "0", "0", "0", "0", "0", "0", "0", "0">>,
      <<"1", "0", "0", "0", "0", "0", "0", "0", "0", "0", "0", "0", "0", "0", "0", "0", ".", "0">>,
      <<"1", "0", "0", "0", "0", "0", "0", "0", "0", "0", "0", "0", "0", "0", "0", "1">>,
      <<"1", "0", "0", "0", "0", "0", "0", "0", "0", "0", "0", "0", "0", "0", "0", "0", ".", "0", "0", "0", "0", "0", "0", "0", "0", "0", "0", "0", "1">>,
      <<"1", "0", "0", "0", "0", "0", "0", "0", "0", "0", "0", "0", "0", "0", "0", "0", ".", "0", "0", "0", "0", "0", "0", "0", "0", "0", "0", "0", "0", "1">>,
      <<"-", "1", "0", "0", "0", "0", "0", "0", "0", "0", "0", "0", "0", "0", "0", "0", "0", ".", "0", "0", "0", "0", "0", "0", "0", "0", "0", "0", "0", "0", "1">>,
      <<"1", "0", "0", "0", "0", "0", "0", "0", "0", "0", "0", "0", "0", "0", "0", "0", ".", "0", "0", "0", "0", "0", "0", "0", "0", "0", "0", "0", "0", "5">>,
      <<"1", "0", "0", "0", "0", "0", "0", "0", "0", "0", "0", "0", "0", "0", "0", "0", ".", "0", "0", "0", "0", "0", "0", "0", "0", "0", "0", "0", "0", "6">>,
      <<"9", "9", "9", "9", "9", "9", "9", "9", "9", "9", "9", "9", "9", "9", "9", ".", "9", "9", "9", "9", "9", "9", "9", "9", "9", "9", "9", "9", "9", "9">>,
      <<"i", "n", "f">>, <<"-", "i", "n", "f">>, <<"I", "n", "f", "i", "n", "i", "t", "y">>,
      <<"+", "I", "n", "f", "i", "n", "i", "t", "y">>, <<"s", "N", "a", "N">>,
      <<" ", "n", "a", "n">>, <<"n", "a", "n", " ">>, <<"1", "e", "9", "9", "9", "9", "9", "9">>,
      <<"1", "e", "1", "0", "0", "0", "0", "0", "0">>,
      <<"-", "1", "e", "1", "0", "0", "0", "0", "0", "0">>,
      <<"1", "e", "-", "1", "0", "0", "0", "0", "0", "0">>,
      <<"9", ".", "9", "9", "9", "9", "9", "9", "9", "9", "9", "9", "9", "9", "9", "9", "9", "9", "9", "9", "9", "9", "9", "9", "9", "9", "9", "9", "9", "9", "E", "+", "9", "9", "9", "9", "9", "9">> }

\* Decimals: 12.50, 0.0000001, 1E+3, 1E+15, 1E+16, -0, NaN and the infinities
DecimalValues ==
    { Dec(0, <<1, 2, 5, 0>>, -2, ""), Dec(0, <<1>>, -7, ""), Dec(0, <<1>>, 3, ""),
      Dec(0, <<1>>, 15, ""), Dec(1, <<1>>, 15, ""), Dec(0, <<1>>, 16, ""),
      Dec(1, <<0>>, 0, ""), Dec(0, <<0>>, 0, "NaN"), Dec(0, <<0>>, 0, "Infinity"),
      Dec(1, <<0>>, 0, "Infinity") }

Inputs ==
    {None}
    \cup {Some(PyFloat(t)) : t \in FloatTexts}
    \cup {Some(PyInt(t)) : t \in IntTexts}
    \cup {Some(PyStr(t)) : t \in StrTexts}
    \cup {Some(PyDecimal(d)) : d \in DecimalValues}

(***************************************************************************)
(* Specification of the normalizer: safe_decimal_convert is applied to an  *)
(* input, and once more to what it returned (save_comprehensive_data       *)
(* converts the values again that the fetcher has converted).              *)
(***************************************************************************)
InitNormalize ==
    /\ stocks = {}
    /\ indicators = {}
    /\ advanced_indicators = {}
    /\ financials = {}
    /\ request = None
    /\ results = <<>>
    /\ scored = {}
    /\ comprehensive = {}
    /\ financial_analysis = {}
    /\ stocks_data = <<>>
    /\ raw_value \in Inputs
    /\ converted = <<>>
    /\ cagr_values = <<>>
    /\ cagr_years = 3
    /\ cagr = <<>>
    /\ today = 1
    /\ fetchers = <<>>
    /\ fetch_count = 0
    /\ screenings = <<>>
    /\ ingest = NoIngest
    /\ listed = <<>>
    /\ alert_rules = <<>>
    /\ alert_logs = <<>>
    /\ monitors = <<>>
    /\ monitor_count = 0
    /\ quality_rules = <<>>
    /\ quality_issues = <<>>
    /\ quality_alerts = <<>>
    /\ quality_count = 0

\* converted_value = safe_decimal_convert(value), of the input first and of
\* the value returned after that
SafeDecimalConvert ==
    /\ Len(converted) < 2
    /\ converted # <<>> => converted[Len(converted)].exception = ""
    /\ converted' =
          Append(converted,
                 safe_decimal_convert(IF converted = <<>> THEN raw_value
                                      ELSE converted[Len(converted)].result))
    /\ UNCHANGED <<stocks, indicators, advanced_indicators, financials, request,
                   results, scored, comprehensive, financial_analysis, stocks_data,
                   raw_value, cagr_values, cagr_years, cagr, today, fetchers,
                   fetch_count, screenings, ingest, listed, alert_rules, alert_logs,
                   monitors, monitor_count, quality_rules, quality_issues,
                   quality_alerts, quality_count>>

NextNormalize == SafeDecimalConvert

SpecNormalize == InitNormalize /\ [][NextNormalize]_vars

(***************************************************************************)
(* The screening with each option of the sort_by field.                    *)
(***************************************************************************)
\* a valid form with each choice of sort_by (and the empty choice), unlimited
SortForms ==
    {[CompanionForm EXCEPT !.sort_by = c, !.limit = None] : c \in SortChoices \cup {""}}

NextSort == \E form \in SortForms : ScreeningView(form)

SpecSort == Init /\ [][NextSort]_vars

(***************************************************************************)
(* The screening with custom_formula as the only condition.                *)
(***************************************************************************)
\* formulas: a comparison no stock of the data meets, a comparison in capital
\* letters, a call of eval, a keyword in capital letters, and texts in which
\* a keyword shares a letter with the name of a variable
Formulas ==
    { <<"p", "e", "r", ">", "1", "0", "0">>,
      F_RoeAbove,
      F_Eval,
      <<"I", "m", "p", "o", "r", "t", " ", "o", "s">>,
      <<"p", "r", "i", "c", "e", "x", "e", "c">>,
      <<"r", "o", "e", "v", "a", "l">>,
      <<"e", "x", "e", "c", "u", "r", "r", "e", "n", "t", "_", "r", "a", "t", "i", "o">> }

FormulaForms == {[BaseForm EXCEPT !.custom_formula = formula] : formula \in Formulas}

NextFormula == \E form \in FormulaForms : ScreeningView(form)

SpecFormula == Init /\ [][NextFormula]_vars

(***************************************************************************)
(* StockDataFetcher.fetch_stock_indicators (stock/utils.py), run by the    *)
(* update commands.  Each call is a worker that goes through the database  *)
(* statements of Indicator.objects.get_or_create and indicator.save() one  *)
(* at a time, so that calls of several commands interleave.                *)
(***************************************************************************)
Workers == {1, 2}

\* at most this many calls are explored
MaxFetches == 3

\* the columns fetch_stock_indicators writes
FetchedColumns == {"per", "pbr", "dividend_yield", "price"}

Quote(per, pbr, dividend_yield, price) ==
    [per |-> per, pbr |-> pbr, dividend_yield |-> dividend_yield, price |-> price]

\* what safe_decimal_convert made of ticker.info and the last close
Quotes ==
    { Quote(Some(700), Some(60), Some(300), Some(100000)),
      Quote(Some(800), None, Some(0), Some(101000)) }

\* Indicator(stock=stock, date=today, **defaults): the other columns are NULL
CreatedRow(code, date, quote) ==
    IndicatorRow(code, date,
                 [a \in IndicatorAttrs |-> IF a \in FetchedColumns THEN quote[a] ELSE None])

\* indicator.per = per, ..., indicator.save(): the row as it was read, with
\* the four columns set
SavedRow(row, quote) ==
    [a \in DOMAIN row |-> IF a \in FetchedColumns THEN quote[a] ELSE row[a]]

\* the rows of Indicator.objects.filter(stock=stock, date=date)
RowsOf(rows, code, date) == {r \in rows : r.stock = code /\ r.date = date}

\* a variant of the table without the unique constraint
NotUnique(rows, code, date) == TRUE

\* unique_together = ['stock', 'date']: the INSERT of a row for (stock, date)
\* is accepted
UniqueTogether(rows, code, date) == RowsOf(rows, code, date) = {}

\* a worker in none of the statements
Idle == [pc |-> "idle", stock |-> 0, date |-> 0, quote |-> Quote(None, None, None, None), row |-> None]

Fetcher(w) == IF w \in DOMAIN fetchers THEN fetchers[w] ELSE Idle

SetFetcher(w, f) == [v \in DOMAIN fetchers \cup {w} |-> IF v = w THEN f ELSE fetchers[v]]

\* the variables fetch_stock_indicators leaves alone
fetch_unchanged ==
    <<stocks, advanced_indicators, financials, request, results, scored, comprehensive,
      financial_analysis, stocks_data, raw_value, converted, cagr_values, cagr_years, cagr,
      screenings, ingest, listed, alert_rules, alert_logs, monitors, monitor_count, quality_rules, quality_issues, quality_alerts, quality_count>>

\* lines 313-341: ticker.info, today, the conversions, and Stock.objects.get,
\* which raises Stock.DoesNotExist for an unknown code (return False)
FetchInfo(w, stock_code, quote) ==
    /\ Fetcher(w).pc \in {"idle", "done"}
    /\ fetch_count < MaxFetches
    /\ fetch_count' = fetch_count + 1
    /\ fetchers' =
          SetFetcher(w, IF \E s \in stocks : s.code = stock_code
                        THEN [Idle EXCEPT !.pc = "get", !.stock = stock_code,
                                          !.date = today, !.quote = quote]
                        ELSE [Idle EXCEPT !.pc = "done"])
    /\ UNCHANGED <<indicators, today>>
    /\ UNCHANGED fetch_unchanged

\* get_or_create: self.get(stock=stock, date=today)
GetIndicator(w) ==
    /\ Fetcher(w).pc = "get"
    /\ fetchers' =
          SetFetcher(w, IF RowsOf(indicators, Fetcher(w).stock, Fetcher(w).date) = {}
                        THEN [Fetcher(w) EXCEPT !.pc = "create"]
                        ELSE [Fetcher(w) EXCEPT
                                 !.pc = "save",
                                 !.row = Some(CHOOSE r \in RowsOf(indicators, Fetcher(w).stock, Fetcher(w).date) : TRUE)])
    /\ UNCHANGED <<indicators, today, fetch_count>>
    /\ UNCHANGED fetch_unchanged

\* get_or_create: self.create(...) in a savepoint; an IntegrityError of the
\* unique constraint sends it back to self.get
CreateIndicator(w) ==
    /\ Fetcher(w).pc = "create"
    /\ IF UniqueTogether(indicators, Fetcher(w).stock, Fetcher(w).date)
       THEN /\ indicators' = indicators \cup {CreatedRow(Fetcher(w).stock, Fetcher(w).date, Fetcher(w).quote)}
            /\ fetchers' = SetFetcher(w, [Fetcher(w) EXCEPT !.pc = "done"])
       ELSE /\ indicators' = indicators
            /\ fetchers' = SetFetcher(w, [Fetcher(w) EXCEPT !.pc = "get"])
    /\ UNCHANGED <<today, fetch_count>>
    /\ UNCHANGED fetch_unchanged

\* if not created: the four assignments and indicator.save(), an UPDATE of
\* the row that was read
SaveIndicator(w) ==
    /\ Fetcher(w).pc = "save"
    /\ indicators' =
          (indicators \ RowsOf(indicators, Fetcher(w).stock, Fetcher(w).date))
              \cup {SavedRow(Get(Fetcher(w).row), Fetcher(w).quote)}
    /\ fetchers' = SetFetcher(w, [Fetcher(w) EXCEPT !.pc = "done"])
    /\ UNCHANGED <<today, fetch_count>>
    /\ UNCHANGED fetch_unchanged

\* midnight passes
NextDay ==
    /\ today < MaxDate
    /\ today' = today + 1
    /\ UNCHANGED <<indicators, fetchers, fetch_count>>
    /\ UNCHANGED fetch_unchanged

\* codes handed to the command: the two stocks and a code without a Stock row
FetchCodes == {Subject.code, Peer.code, 9999}

InitFetch ==
    /\ stocks = {Subject, Peer}
    /\ indicators \in {{}, {IndicatorRow(Subject.code, 1, IndTypical)}}
    /\ advanced_indicators = {AdvancedRow(Subject.code, 1, AdvTypical)}
    /\ financials = FinGrowth(Subject.code) \cup FinGrowth(Peer.code)
    /\ request = None
    /\ results = <<>>
    /\ scored = {}
    /\ comprehensive = {}
    /\ financial_analysis = {}
    /\ stocks_data = <<>>
    /\ raw_value = None
    /\ converted = <<>>
    /\ cagr_values = <<>>
    /\ cagr_years = 3
    /\ cagr = <<>>
    /\ today = 1
    /\ fetchers = <<>>
    /\ fetch_count = 0
    /\ screenings = <<>>
    /\ ingest = NoIngest
    /\ listed = <<>>
    /\ alert_rules = <<>>
    /\ alert_logs = <<>>
    /\ monitors = <<>>
    /\ monitor_count = 0
    /\ quality_rules = <<>>
    /\ quality_issues = <<>>
    /\ quality_alerts = <<>>
    /\ quality_count = 0

NextFetch ==
    \/ \E w \in Workers, c \in FetchCodes, q \in Quotes : FetchInfo(w, c, q)
    \/ \E w \in Workers : GetIndicator(w)
    \/ \E w \in Workers : CreateIndicator(w)
    \/ \E w \in Workers : SaveIndicator(w)
    \/ NextDay

SpecFetch == InitFetch /\ [][NextFetch]_vars

(***************************************************************************)
(* The screening page requested again and again while one update command   *)
(* fetches the indicators.                                                 *)
(***************************************************************************)
\* at most this many requests are explored
MaxScreenings == 2

\* criteria that both stocks meet with their typical rows
RepeatedForms == {CompanionForm, WithRange(CompanionForm, "per_max", 700)}

\* screening_view(request) with request.GET = form, once more
ScreeningViewAgain(form) ==
    /\ Len(screenings) < MaxScreenings
    /\ request' = Some(form)
    /\ results' = screening_results(form)
    /\ screenings' =
          Append(screenings,
                 [form |-> form, stocks |-> stocks, indicators |-> indicators,
                  advanced_indicators |-> advanced_indicators,
                  financials |-> financials, results |-> results'])
    /\ UNCHANGED <<stocks, indicators, advanced_indicators, financials, scored,
                   comprehensive, financial_analysis, stocks_data, raw_value, converted,
                   cagr_values, cagr_years, cagr, today, fetchers, fetch_count, ingest,
                   listed, alert_rules, alert_logs, monitors, monitor_count,
                   quality_rules, quality_issues, quality_alerts, quality_count>>

\* the command fetches one stock after the other
Command_worker == 1

\* the values the feed gives in this exploration
Command_quote == Quote(Some(700), Some(60), Some(300), Some(100000))

NextRescreen ==
    \/ \E form \in RepeatedForms : ScreeningViewAgain(form)
    \/ \E c \in FetchCodes : FetchInfo(Command_worker, c, Command_quote)
    \/ GetIndicator(Command_worker)
    \/ CreateIndicator(Command_worker)
    \/ SaveIndicator(Command_worker)
    \/ NextDay

SpecRescreen == InitFetch /\ [][NextRescreen]_vars

(***************************************************************************)
(* StockDataFetcher._parse_jpx_data (stock/utils.py): the rows of the JPX  *)
(* listing are written to the Stock table.  A cell of the sheet is a text, *)
(* a number (a column that pandas read as whole numbers, or as floats when *)
(* it has an empty cell) or NaN (an empty cell).  The columns are the ones *)
(* _detect_column_mapping found.                                           *)
(***************************************************************************)
MaxIngests == 3

TextCell(t) == [kind |-> "str", text |-> t, number |-> 0]

IntCell(n) == [kind |-> "int", text |-> <<>>, number |-> n]

FloatCell(n) == [kind |-> "float", text |-> <<>>, number |-> n]

NanCell == [kind |-> "nan", text |-> <<>>, number |-> 0]

\* str(cell or '').strip(): an empty text and a zero are false, NaN is true
CellText(cell) ==
    CASE cell.kind = "str" -> StripSpaces(cell.text)
      [] cell.kind = "int" -> IF cell.number = 0 THEN <<>> ELSE NatStr(cell.number)
      [] cell.kind = "float" ->
            IF cell.number = 0 THEN <<>> ELSE NatStr(cell.number) \o <<".", "0">>
      [] OTHER -> <<"n", "a", "n">>

T_Domestic == <<"D", "o", "m", "e", "s", "t", "i", "c">>

T_ETF == <<"E", "T", "F">>

T_ETN == <<"E", "T", "N">>

T_REIT == <<"R", "E", "I", "T">>

\* the markets _validate_stock_data leaves out
exclude_markets ==
    {T_ETF \o <<"/">> \o T_ETN, T_REIT \o <<"/", "F", "u", "n", "d", "s">>, T_REIT, T_ETF,
     T_ETN}

valid_market_keywords == {T_Prime, T_Standard, T_Growth, T_Domestic}

validate_stock_data(code, name, market) ==
    /\ code # <<>>
    /\ name # <<>>
    /\ IsDigits(code)
    /\ Len(code) = 4
    /\ ~\E exclude \in exclude_markets : Contains(market, exclude)
    /\ \E keyword \in valid_market_keywords : Contains(market, keyword)

\* a Stock row as get_or_create(code=code, defaults=...) creates it, the other
\* columns at their defaults
ListedStock(code, name, market, sector) ==
    [code |-> code, name |-> name, market |-> market, sector |-> sector,
     size_category |-> "", data_quality_score |-> 0, is_active |-> TRUE]

\* a variant that takes over the name alone
UpdatedName(stock, name, market, sector) == [stock EXCEPT !.name = name]

\* the three comparisons and assignments of an existing row, and save()
UpdatedStock(stock, name, market, sector) ==
    [stock EXCEPT !.name = name, !.market = market, !.sector = sector]

StocksOf(rows, code) == {s \in rows : s.code = code}

\* get_or_create and the update of a row that was not created; run is the
\* table and the count of created rows so far
StoreStock(run, code, name, market, sector) ==
    IF StocksOf(run.stocks, code) = {}
    THEN [stocks  |-> run.stocks \cup {ListedStock(code, name, market, sector)},
          created |-> run.created + 1]
    ELSE [stocks  |-> {IF s.code = code THEN UpdatedStock(s, name, market, sector) ELSE s :
                         s \in run.stocks},
          created |-> run.created]

\* the body of the loop for the texts of one row
ParseFields(run, code, name, market, sector) ==
    IF ~validate_stock_data(code, name, market) THEN run
    ELSE StoreStock(run, NatOf(DigitsOf(code)), name, market, sector)

ParseRow(run, row) ==
    ParseFields(run, CellText(row.code), CellText(row.name), CellText(row.market),
                CellText(row.sector))

\* for index, row in df.iterrows()
RECURSIVE ParseRows(_, _)
ParseRows(run, feed) ==
    IF feed = <<>> THEN run ELSE ParseRows(ParseRow(run, Head(feed)), Tail(feed))

parse_jpx_data(rows, feed) == ParseRows([stocks |-> rows, created |-> 0], feed)

\* the history of the accepted rows: the fields of the last row that passed
\* _validate_stock_data, for each code
ListRow(history, code, name, market, sector) ==
    IF ~validate_stock_data(code, name, market) THEN history
    ELSE [c \in DOMAIN history \cup {NatOf(DigitsOf(code))} |->
            IF c = NatOf(DigitsOf(code))
            THEN [name |-> name, market |-> market, sector |-> sector]
            ELSE history[c]]

RECURSIVE Listings(_, _)
Listings(history, feed) ==
    IF feed = <<>> THEN history
    ELSE Listings(ListRow(history, CellText(Head(feed).code), CellText(Head(feed).name),
                          CellText(Head(feed).market), CellText(Head(feed).sector)),
                  Tail(feed))

\* fetch_jpx_stock_list hands the sheet to _parse_jpx_data, which returns
\* stock_created; again tells that the run before it had the same sheet
ParseJpxData(feed) ==
    /\ ingest.count < MaxIngests
    /\ stocks' = parse_jpx_data(stocks, feed).stocks
    /\ ingest' = [count    |-> ingest.count + 1,
                  feed     |-> feed,
                  again    |-> ingest.count > 0 /\ feed = ingest.feed,
                  created  |-> parse_jpx_data(stocks, feed).created]
    /\ listed' = Listings(listed, feed)
    /\ UNCHANGED <<indicators, advanced_indicators, financials, request, results, scored,
                   comprehensive, financial_analysis, stocks_data, raw_value, converted,
                   cagr_values, cagr_years, cagr, today, fetchers, fetch_count, screenings,
                   alert_rules, alert_logs, monitors, monitor_count, quality_rules,
                   quality_issues, quality_alerts, quality_count>>

T_Toyota == <<"T", "o", "y", "o", "t", "a">>

T_MUFG == <<"M", "U", "F", "G">>

T_7203 == <<"7", "2", "0", "3">>

PrimeDomestic == T_Prime \o <<"(">> \o T_Domestic \o <<")">>

FeedRow(code, name, market, sector) ==
    [code |-> code, name |-> name, market |-> market, sector |-> sector]

\* rows of the sheet: a listing, the same company renamed and moved to another
\* market, its code read as a number and as a float, the code with blanks
\* around it and without a name, a listing as an ETF, a listing with an empty
\* sector cell, and a code that is no four digits
FeedRows ==
    {FeedRow(TextCell(T_7203), TextCell(T_Toyota), TextCell(PrimeDomestic), TextCell(T_Transport)),
     FeedRow(TextCell(T_7203), TextCell(T_Toyota \o <<" ", "M">>), TextCell(T_Standard),
             TextCell(T_Transport)),
     FeedRow(IntCell(7203), TextCell(T_Toyota), TextCell(PrimeDomestic), TextCell(T_Transport)),
     FeedRow(FloatCell(7203), TextCell(T_MUFG), TextCell(T_Growth), TextCell(T_Bank)),
     FeedRow(TextCell(<<" ">> \o T_7203 \o <<" ">>), TextCell(<<>>), TextCell(T_Growth),
             TextCell(T_Bank)),
     FeedRow(TextCell(T_7203), TextCell(T_Toyota), TextCell(T_ETF), TextCell(T_Transport)),
     FeedRow(TextCell(<<"8", "3", "0", "6">>), TextCell(T_MUFG), TextCell(PrimeDomestic), NanCell),
     FeedRow(TextCell(<<"1", "3", "0", "A">>), TextCell(T_MUFG), TextCell(PrimeDomestic),
             TextCell(T_Bank))}

\* sheets of at most two rows
Feeds ==
    {<<>>} \cup {<<r>> : r \in FeedRows} \cup {<<r, q>> : r \in FeedRows, q \in FeedRows}

\* the row create_sample_stock makes for 7203
SampleStock == ListedStock(7203, T_Toyota, PrimeDomestic, T_Transport)

\* the Stock table is empty or holds a sample stock
InitIngest ==
    /\ stocks \in {{}, {SampleStock}}
    /\ indicators = {}
    /\ advanced_indicators = {}
    /\ financials = {}
    /\ request = None
    /\ results = <<>>
    /\ scored = {}
    /\ comprehensive = {}
    /\ financial_analysis = {}
    /\ stocks_data = <<>>
    /\ raw_value = None
    /\ converted = <<>>
    /\ cagr_values = <<>>
    /\ cagr_years = 3
    /\ cagr = None
    /\ today = 1
    /\ fetchers = <<>>
    /\ fetch_count = 0
    /\ screenings = <<>>
    /\ ingest = NoIngest
    /\ listed = <<>>
    /\ alert_rules = <<>>
    /\ alert_logs = <<>>
    /\ monitors = <<>>
    /\ monitor_count = 0
    /\ quality_rules = <<>>
    /\ quality_issues = <<>>
    /\ quality_alerts = <<>>
    /\ quality_count = 0

NextIngest == \E feed \in Feeds : ParseJpxData(feed)

SpecIngest == InitIngest /\ [][NextIngest]_vars

(***************************************************************************)
(* AlertProcessor.check_price_alerts (stock/alert_monitoring.py), run by   *)
(* the Celery task run_alert_monitoring.  Runs of the task on different    *)
(* workers overlap; each statement of a run on the database is one step:   *)
(* the evaluation of the queryset of the rules, the check of one rule with *)
(* the INSERT of its AlertLog, and rule.save(), an UPDATE of every column  *)
(* of the rule from the object the run holds.                              *)
(***************************************************************************)
MonitorWorkers == {1, 2}

MaxRuns == 3

AlertRule(alert_type, stock, target_price) ==
    [alert_type |-> alert_type, stock |-> stock, target_price |-> target_price,
     is_active |-> TRUE, last_triggered |-> None, trigger_count |-> 0]

\* the price of 7203 is 1000.00: a rule that is met, a rule that is met with
\* equality, a rule that is not met, and a rule of another type
InitialRules ==
    <<AlertRule("price_above", Some(Subject.code), 90000),
      AlertRule("price_below", Some(Subject.code), 100000),
      AlertRule("price_above", Some(Subject.code), 200000),
      AlertRule("volume_spike", Some(Subject.code), 0)>>

NoMonitor == [pc |-> "idle", rules |-> <<>>, ids |-> <<>>, i |-> 0]

Monitor(w) == IF w \in DOMAIN monitors THEN monitors[w] ELSE NoMonitor

SetMonitor(w, m) == [v \in DOMAIN monitors \cup {w} |-> IF v = w THEN m ELSE monitors[v]]

\* AlertRule.objects.filter(is_active=True, alert_type__in=[...]): the ids
IsPriceRule(rule) == rule.is_active /\ rule.alert_type \in {"price_above", "price_below"}

RECURSIVE PriceRuleIds(_, _)
PriceRuleIds(rules, id) ==
    IF id > Len(rules) THEN <<>>
    ELSE (IF IsPriceRule(rules[id]) THEN <<id>> ELSE <<>>) \o PriceRuleIds(rules, id + 1)

\* rule.stock.indicators.order_by('-date').first()
LatestIndicators(rows, code) ==
    {r \in rows : r.stock = code /\ \A q \in rows : q.stock = code => q.date <= r.date}

\* the rule is looked at no further: no stock, no latest price
NoPrice(rule) ==
    \/ rule.stock = None
    \/ LatestIndicators(indicators, Get(rule.stock)) = {}
    \/ \A r \in LatestIndicators(indicators, Get(rule.stock)) : ~Truthy(r.price)

CurrentPrice(rule) ==
    Get((CHOOSE r \in LatestIndicators(indicators, Get(rule.stock)) : TRUE).price)

should_trigger(rule) ==
    \/ rule.alert_type = "price_above" /\ CurrentPrice(rule) >= rule.target_price
    \/ rule.alert_type = "price_below" /\ CurrentPrice(rule) <= rule.target_price

\* rule.last_triggered and rule.last_triggered.date() == today
TriggeredToday(rule) == rule.last_triggered # None /\ Get(rule.last_triggered) = today

Fires(rule) == ~NoPrice(rule) /\ should_trigger(rule) /\ ~TriggeredToday(rule)

\* the variables check_price_alerts leaves alone
alert_unchanged ==
    <<stocks, indicators, advanced_indicators, financials, request, results, scored,
      comprehensive, financial_analysis, stocks_data, raw_value, converted, cagr_values,
      cagr_years, cagr, fetchers, fetch_count, screenings, ingest, listed,
      quality_rules, quality_issues, quality_alerts, quality_count>>

\* the task starts on a worker; the loop evaluates the queryset
RunAlertMonitoring(w) ==
    /\ Monitor(w).pc = "idle"
    /\ monitor_count < MaxRuns
    /\ monitor_count' = monitor_count + 1
    /\ monitors' = SetMonitor(w, [pc |-> "check", rules |-> alert_rules,
                                  ids |-> PriceRuleIds(alert_rules, 1), i |-> 1])
    /\ UNCHANGED <<alert_rules, alert_logs, today>>
    /\ UNCHANGED alert_unchanged

\* one pass of the loop up to create_alert_log, or the return after the last
\* rule
CheckPriceAlert(w) ==
    /\ Monitor(w).pc = "check"
    /\ IF Monitor(w).i > Len(Monitor(w).ids)
       THEN /\ monitors' = SetMonitor(w, NoMonitor)
            /\ alert_logs' = alert_logs
       ELSE IF Fires(Monitor(w).rules[Monitor(w).ids[Monitor(w).i]])
       THEN /\ alert_logs' =
                  Append(alert_logs, [rule |-> Monitor(w).ids[Monitor(w).i], date |-> today])
            /\ monitors' = SetMonitor(w, [Monitor(w) EXCEPT !.pc = "save"])
       ELSE /\ alert_logs' = alert_logs
            /\ monitors' = SetMonitor(w, [Monitor(w) EXCEPT !.i = @ + 1])
    /\ UNCHANGED <<alert_rules, monitor_count, today>>
    /\ UNCHANGED alert_unchanged

\* rule.last_triggered = timezone.now(); rule.trigger_count += 1; rule.save()
SavePriceAlert(w) ==
    /\ Monitor(w).pc = "save"
    /\ alert_rules' =
          [alert_rules EXCEPT ![Monitor(w).ids[Monitor(w).i]] =
              [Monitor(w).rules[Monitor(w).ids[Monitor(w).i]] EXCEPT
                  !.last_triggered = Some(today), !.trigger_count = @ + 1]]
    /\ monitors' = SetMonitor(w, [Monitor(w) EXCEPT !.pc = "check", !.i = @ + 1])
    /\ UNCHANGED <<alert_logs, monitor_count, today>>
    /\ UNCHANGED alert_unchanged

InitAlert ==
    /\ stocks = {Subject, Peer}
    /\ indicators = {IndicatorRow(Subject.code, 1, IndTypical)}
    /\ advanced_indicators = {}
    /\ financials = {}
    /\ request = None
    /\ results = <<>>
    /\ scored = {}
    /\ comprehensive = {}
    /\ financial_analysis = {}
    /\ stocks_data = <<>>
    /\ raw_value = None
    /\ converted = <<>>
    /\ cagr_values = <<>>
    /\ cagr_years = 3
    /\ cagr = None
    /\ today = 1
    /\ fetchers = <<>>
    /\ fetch_count = 0
    /\ screenings = <<>>
    /\ ingest = NoIngest
    /\ listed = <<>>
    /\ alert_rules = InitialRules
    /\ alert_logs = <<>>
    /\ monitors = <<>>
    /\ monitor_count = 0
    /\ quality_rules = <<>>
    /\ quality_issues = <<>>
    /\ quality_alerts = <<>>
    /\ quality_count = 0

NextAlert ==
    \/ \E w \in MonitorWorkers : RunAlertMonitoring(w)
    \/ \E w \in MonitorWorkers : CheckPriceAlert(w)
    \/ \E w \in MonitorWorkers : SavePriceAlert(w)
    \/ NextDay

SpecAlert == InitAlert /\ [][NextAlert]_vars

(***************************************************************************)
(* DataQualityManager.run_quality_checks and record_issue                  *)
(* (stock/data_quality.py) with rules of the type range_check.  The values *)
(* and the bounds of rule_config are in hundredths; current_value, the     *)
(* text of the value, is the value itself, and issue_description is the    *)
(* side and the bound its text names.                                      *)
(***************************************************************************)
MaxChecks == 3

QualityRule(rule_type, target_fields, rule_config, notify_admin, auto_fix, is_active) ==
    [rule_type |-> rule_type, target_fields |-> target_fields, rule_config |-> rule_config,
     severity |-> "medium", notify_admin |-> notify_admin, auto_fix |-> auto_fix,
     is_active |-> is_active]

\* rule_config of a rule on roe and equity_ratio: roe_min, roe_max and
\* equity_ratio_max are set
RoeConfig ==
    [roe          |-> [min |-> Some(-10000), max |-> Some(20000)],
     equity_ratio |-> [min |-> None, max |-> Some(10000)]]

\* a rule that notifies the admin and is fixed automatically, a rule on roe
\* alone that does neither, a rule that is not active, and a rule of a type
\* without a check
InitialQualityRules ==
    <<QualityRule("range_check", <<"roe", "equity_ratio">>, RoeConfig, TRUE, TRUE, TRUE),
      QualityRule("range_check", <<"roe">>, RoeConfig, FALSE, FALSE, TRUE),
      QualityRule("range_check", <<"roe">>, RoeConfig, TRUE, FALSE, FALSE),
      QualityRule("unknown_check", <<"roe">>, RoeConfig, TRUE, FALSE, TRUE)>>

QualityIssue(rule, stock, field_name, current_value, issue_description, status) ==
    [rule |-> rule, stock |-> stock, field_name |-> field_name,
     current_value |-> current_value, issue_description |-> issue_description,
     severity |-> "medium", status |-> status]

\* stock.advanced_indicators.order_by('-date').first()
LatestAdvanced(rows, code) ==
    {r \in rows : r.stock = code /\ \A q \in rows : q.stock = code => q.date <= r.date}

\* the issue_data check_value_ranges appends for one field of a row
FieldIssues(config, code, field_name, value) ==
    IF value = None THEN <<>>
    ELSE (IF config.min # None /\ Get(value) < Get(config.min)
          THEN <<[stock |-> code, field_name |-> field_name, current_value |-> Get(value),
                  issue_description |-> <<"min", Get(config.min)>>]>>
          ELSE <<>>)
         \o
         (IF config.max # None /\ Get(value) > Get(config.max)
          THEN <<[stock |-> code, field_name |-> field_name, current_value |-> Get(value),
                  issue_description |-> <<"max", Get(config.max)>>]>>
          ELSE <<>>)

\* for field_name in rule.target_fields
RECURSIVE RowIssues(_, _, _)
RowIssues(rule, row, fields) ==
    IF fields = <<>> THEN <<>>
    ELSE FieldIssues(rule.rule_config[Head(fields)], row.stock, Head(fields), row[Head(fields)])
         \o RowIssues(rule, row, Tail(fields))

\* for stock in stocks
RECURSIVE check_value_ranges(_, _)
check_value_ranges(stock_rows, rule) ==
    IF stock_rows = <<>> THEN <<>>
    ELSE (IF LatestAdvanced(advanced_indicators, Head(stock_rows).code) = {} THEN <<>>
          ELSE RowIssues(rule,
                         CHOOSE r \in LatestAdvanced(advanced_indicators, Head(stock_rows).code) : TRUE,
                         rule.target_fields))
         \o check_value_ranges(Tail(stock_rows), rule)

\* a variant that looks for open issues alone
OpenIssues(issues, id, issue_data) ==
    {k \in 1..Len(issues) :
        /\ issues[k].rule = id
        /\ issues[k].stock = issue_data.stock
        /\ issues[k].field_name = issue_data.field_name
        /\ issues[k].status = "open"}

\* DataQualityIssue.objects.filter(rule=rule, stock=..., field_name=...,
\* status__in=['open', 'investigating'])
ExistingIssues(issues, id, issue_data) ==
    {k \in 1..Len(issues) :
        /\ issues[k].rule = id
        /\ issues[k].stock = issue_data.stock
        /\ issues[k].field_name = issue_data.field_name
        /\ issues[k].status \in {"open", "investigating"}}

\* .first() under ordering = ['-detected_at']
FirstIssue(found) == CHOOSE k \in found : \A j \in found : j <= k

\* record_issue; book is the issues and the notifications so far
record_issue(book, id, rule, issue_data) ==
    IF ExistingIssues(book.issues, id, issue_data) # {}
    THEN [book EXCEPT
             !.issues[FirstIssue(ExistingIssues(book.issues, id, issue_data))] =
                 [@ EXCEPT !.current_value = issue_data.current_value,
                           !.issue_description = issue_data.issue_description]]
    ELSE [issues |-> Append(book.issues,
                            QualityIssue(id, issue_data.stock, issue_data.field_name,
                                         issue_data.current_value,
                                         issue_data.issue_description, "open")),
          alerts |-> IF rule.notify_admin
                     THEN Append(book.alerts,
                                 [rule |-> id, stock |-> issue_data.stock,
                                  field_name |-> issue_data.field_name])
                     ELSE book.alerts]

\* for issue_data in issues: record_issue(rule, issue_data)
RECURSIVE RecordIssues(_, _, _, _)
RecordIssues(book, id, rule, issues) ==
    IF issues = <<>> THEN book
    ELSE RecordIssues(record_issue(book, id, rule, Head(issues)), id, rule, Tail(issues))

\* for rule in active_rules, from the rule of this id on
RECURSIVE CheckRules(_, _)
CheckRules(book, id) ==
    IF id > Len(quality_rules) THEN book
    ELSE IF quality_rules[id].is_active /\ quality_rules[id].rule_type = "range_check"
    THEN CheckRules(RecordIssues(book, id, quality_rules[id],
                                 check_value_ranges(OrderByCode(stocks), quality_rules[id])),
                    id + 1)
    ELSE CheckRules(book, id + 1)

\* the variables the quality checks leave alone
quality_unchanged ==
    <<stocks, indicators, financials, request, results, scored, comprehensive,
      financial_analysis, stocks_data, raw_value, converted, cagr_values, cagr_years, cagr,
      today, fetchers, fetch_count, screenings, ingest, listed, alert_rules, alert_logs,
      monitors, monitor_count, quality_rules>>

\* run_quality_checks()
RunQualityChecks ==
    /\ quality_count < MaxChecks
    /\ quality_count' = quality_count + 1
    /\ quality_issues' =
          CheckRules([issues |-> quality_issues, alerts |-> quality_alerts], 1).issues
    /\ quality_alerts' =
          CheckRules([issues |-> quality_issues, alerts |-> quality_alerts], 1).alerts
    /\ UNCHANGED advanced_indicators
    /\ UNCHANGED quality_unchanged

\* AdvancedDataFetcher saves the indicators of today:
\* AdvancedIndicator.objects.update_or_create(stock=stock, date=today, ...)
SaveAdvanced(code, vals) ==
    /\ advanced_indicators' =
          {r \in advanced_indicators : ~(r.stock = code /\ r.date = today)}
              \cup {AdvancedRow(code, today, vals)}
    /\ UNCHANGED <<quality_issues, quality_alerts, quality_count>>
    /\ UNCHANGED quality_unchanged

\* auto_fix_issues for one open issue of a rule with auto_fix whose fix
\* succeeds: fix_range_issue writes the sector average to the latest row
FixIssue(k, sector_average) ==
    /\ k \in 1..Len(quality_issues)
    /\ quality_issues[k].status = "open"
    /\ quality_rules[quality_issues[k].rule].auto_fix
    /\ quality_rules[quality_issues[k].rule].rule_type = "range_check"
    /\ LatestAdvanced(advanced_indicators, quality_issues[k].stock) # {}
    /\ advanced_indicators' =
          {IF r \in LatestAdvanced(advanced_indicators, quality_issues[k].stock)
           THEN [r EXCEPT ![quality_issues[k].field_name] = Some(sector_average)]
           ELSE r : r \in advanced_indicators}
    /\ quality_issues' = [quality_issues EXCEPT ![k].status = "fixed"]
    /\ UNCHANGED <<quality_alerts, quality_count>>
    /\ UNCHANGED quality_unchanged

\* a return on equity above roe_max, one further above it with an equity ratio
\* above equity_ratio_max, and one below roe_min
AdvHigh == [AdvTypical EXCEPT !.roe = Some(25000)]

AdvHigher == [AdvTypical EXCEPT !.roe = Some(30000), !.equity_ratio = Some(12000)]

AdvLow == [AdvTypical EXCEPT !.roe = Some(-15000)]

QualityProfiles == {AdvTypical, AdvHigher, AdvLow}

\* an issue of the first rule that an administrator is looking into
Investigated == QualityIssue(1, Subject.code, "roe", 25000, <<"max", 20000>>, "investigating")

\* the sector average of every field that fix_range_issue gets
SectorAverage == 1000

\* the rows of yesterday are there, the one of 7203 is out of range
InitQuality ==
    /\ stocks = {Subject, Peer}
    /\ indicators = {}
    /\ advanced_indicators =
          {AdvancedRow(Peer.code, 1, AdvTypical), AdvancedRow(Subject.code, 1, AdvHigh)}
    /\ financials = {}
    /\ request = None
    /\ results = <<>>
    /\ scored = {}
    /\ comprehensive = {}
    /\ financial_analysis = {}
    /\ stocks_data = <<>>
    /\ raw_value = None
    /\ converted = <<>>
    /\ cagr_values = <<>>
    /\ cagr_years = 3
    /\ cagr = None
    /\ today = MaxDate
    /\ fetchers = <<>>
    /\ fetch_count = 0
    /\ screenings = <<>>
    /\ ingest = NoIngest
    /\ listed = <<>>
    /\ alert_rules = <<>>
    /\ alert_logs = <<>>
    /\ monitors = <<>>
    /\ monitor_count = 0
    /\ quality_rules = InitialQualityRules
    /\ quality_issues \in {<<>>, <<Investigated>>}
    /\ quality_alerts = <<>>
    /\ quality_count = 0

NextQuality ==
    \/ RunQualityChecks
    \/ \E vals \in QualityProfiles : SaveAdvanced(Subject.code, vals)
    \/ \E k \in 1..Len(quality_issues) : FixIssue(k, SectorAverage)

SpecQuality == InitQuality /\ [][NextQuality]_vars

(***************************************************************************)
(* Properties of the screening (Spec) and of the scoring (SpecScore).      *)
(***************************************************************************)
\* the request that was served
Served == Get(request)

\* the codes of the stocks in the results
ResultCodes == {results[i].stock : i \in 1..Len(results)}

\* no predicate at all is configured in the form
NoPredicate(form) ==
    /\ form.range = EmptyRange
    /\ form.market = <<>>
    /\ form.sector = <<>>
    /\ form.size_category = ""
    /\ form.consecutive_profit_years = None
    /\ form.consecutive_dividend_years = None
    /\ form.custom_formula = <<>>
    /\ ~form.exclude_loss_stocks
    /\ form.exclude_sectors = {}

\* C3: a form in which no predicate is configured is invalid, and for it
\* build_complete_queryset returns the empty list and the screening shows no
\* result, whatever the data holds.
C3_EmptyCriteriaRejected ==
    (request # None /\ NoPredicate(Served)) =>
        /\ ~is_valid(Served)
        /\ build_complete_queryset(Served) = <<>>
        /\ results = <<>>

\* C3 witness: the form without a predicate was submitted over data in which
\* both stocks have a latest Indicator row, and nothing was returned.
C3_Witness ==
    /\ request = Some(BaseForm)
    /\ \A s \in stocks : latest_indicators(s.code) # {}
    /\ results = <<>>

\* the value a stock has for the column that range field f bounds: the value in
\* its latest snapshot, None without one
LatestValue(stock, f) ==
    LET rows == IF f.family = "indicator" THEN latest_indicators(stock.code)
                ELSE latest_advanced_indicators(stock.code)
    IN  IF rows = {} THEN None ELSE (CHOOSE r \in rows : TRUE)[f.attr]

\* the stock meets the bound the form sets in range field f (bounds inclusive,
\* an absent value meets no bound)
MeetsRange(form, stock, f) ==
    LET v     == LatestValue(stock, f)
        bound == Get(form.range[f.field]) * f.mult
    IN  /\ v # None
        /\ IF f.op = "gte" THEN Get(v) >= bound ELSE Get(v) <= bound

\* the stock meets every min/max, substring, equality and streak constraint the
\* form configures, restricted to the range fields in F
SatisfiesIn(form, stock, F) ==
    /\ \A f \in F : form.range[f.field] # None => MeetsRange(form, stock, f)
    /\ form.market # <<>> => IContains(stock.market, form.market)
    /\ form.sector # <<>> => IContains(stock.sector, form.sector)
    /\ form.size_category # "" => stock.size_category = form.size_category
    /\ form.consecutive_profit_years # None =>
          check_consecutive_profit_years(recent_financials(stock.code),
                                         Get(form.consecutive_profit_years))

\* the form configures min/max, substring, equality and streak constraints only
OnlyListedConstraints(form) ==
    /\ form.consecutive_dividend_years = None
    /\ form.custom_formula = <<>>
    /\ ~form.exclude_loss_stocks
    /\ form.exclude_sectors = {}

\* C1: for every valid form (a bound of 0 included) and every stock with a
\* latest Indicator row, the stock is in the result if and only if it meets
\* every configured constraint.
C1_FilterConjunction ==
    (request # None /\ is_valid(Served) /\ OnlyListedConstraints(Served)) =>
        \A s \in stocks :
            latest_indicators(s.code) # {} =>
                (s.code \in ResultCodes <=> SatisfiesIn(Served, s, RangeFields))

\* C2: a stock whose value for a metric is absent is in no result of a valid
\* form that configures a min or a max on that metric.
C2_AbsentFailsRange ==
    (request # None /\ is_valid(Served)) =>
        \A f \in RangeFields :
            Served.range[f.field] # None =>
                \A s \in stocks :
                    LatestValue(s, f) = None => s.code \notin ResultCodes

\* C4: no stock whose sector is in the exclude_sectors of a valid form is in
\* the result.
C4_ExcludedSectorsAbsent ==
    (request # None /\ is_valid(Served) /\ Served.exclude_sectors # {}) =>
        \A s \in stocks :
            s.sector \in Served.exclude_sectors => s.code \notin ResultCodes

\* the names of the fundamental variables of a custom formula
FundamentalNames ==
    { <<"r", "o", "e">>, <<"r", "o", "a">>, <<"r", "o", "i", "c">>,
      <<"e", "q", "u", "i", "t", "y", "_", "r", "a", "t", "i", "o">>,
      <<"c", "u", "r", "r", "e", "n", "t", "_", "r", "a", "t", "i", "o">> }

\* the form configures no predicate on a fundamental field
NoFundamentalPredicate(form) ==
    /\ \A f \in AdvancedRangeFields : form.range[f.field] = None
    /\ \A n \in FundamentalNames : ~Contains(Lower(form.custom_formula), n)

\* the stock has no latest AdvancedIndicator row, or one without any value
MissingFundamentals(stock) ==
    \A r \in latest_advanced_indicators(stock.code) :
        \A a \in AdvancedAttrs : r[a] = None

\* the stock meets every constraint the form configures on its market data, its
\* master data and its financial history
MarketOK(form, stock) ==
    LET fin == recent_financials(stock.code)
        dividend_yield ==
            LatestValue(stock, [family |-> "indicator", attr |-> "dividend_yield"])
    IN  /\ SatisfiesIn(form, stock, IndicatorRangeFields)
        /\ form.exclude_loss_stocks =>
              ~(Len(fin) > 0 /\ fin[1].net_income # None /\ Get(fin[1].net_income) < 0)
        /\ form.consecutive_dividend_years # None =>
              (dividend_yield # None /\ Get(dividend_yield) > 0)
        /\ \A k \in dangerous_keywords : ~Contains(Lower(form.custom_formula), k)

C5_ScoresBounded ==
    \A r \in scored :
        /\ r.valuation_score \in 0..2500
        /\ r.profitability_score \in 0..2500
        /\ r.growth_score \in 0..2500
        /\ r.safety_score \in 0..2500
        /\ r.total_score \in 0..10000

\* C5 witness: in one state a stock with a negative price/earnings and a
\* negative price/book ratio is scored at the upper end of the valuation range
\* and a stock without any fundamental row at the lower end of two ranges.
C5_Witness ==
    /\ \E r \in scored :
          /\ r.indicator.per # None /\ Get(r.indicator.per) < 0
          /\ r.indicator.pbr # None /\ Get(r.indicator.pbr) < 0
          /\ r.valuation_score = 2500
    /\ \E r \in scored :
          /\ r.advanced = None
          /\ r.profitability_score = 0
          /\ r.safety_score = 0

\* the newest and the oldest of the values a three-year CAGR is taken from grow
\* by more than pct percent a year: end * 100^3 > start * (100 + pct)^3
GrowsFasterThan(values, pct) ==
    /\ Len(values) >= 3
    /\ values[Len(values)] > 0
    /\ values[1] > 0
    /\ ProductGt(values[1], Power(100, 3), values[Len(values)], Power(100 + pct, 3))

\* all eight inputs of a score record are in their top tier
TopTier(r) ==
    /\ r.indicator.per # None /\ Get(r.indicator.per) # 0 /\ Get(r.indicator.per) < 800
    /\ r.indicator.pbr # None /\ Get(r.indicator.pbr) # 0 /\ Get(r.indicator.pbr) < 80
    /\ r.advanced # None
    /\ Get(r.advanced).roe # None /\ Get(Get(r.advanced).roe) > 2000
    /\ Get(r.advanced).roa # None /\ Get(Get(r.advanced).roa) > 1000
    /\ Get(r.advanced).equity_ratio # None /\ Get(Get(r.advanced).equity_ratio) > 7000
    /\ Get(r.advanced).current_ratio # None /\ Get(Get(r.advanced).current_ratio) > 200
    /\ GrowsFasterThan(TruthyValues(r.financials, "revenue"), 15)
    /\ GrowsFasterThan(PositiveValues(r.financials, "net_income"), 20)

\* the stock of the end-to-end scenario: P/E 7, P/B 0.6, ROE 22, ROA 11,
\* equity ratio 75, current ratio 2.2, revenue CAGR 16, net-income CAGR 21
IsScenario(r) ==
    /\ r.indicator.per = Some(700)
    /\ r.indicator.pbr = Some(60)
    /\ r.advanced # None
    /\ Get(r.advanced).roe = Some(2200)
    /\ Get(r.advanced).roa = Some(1100)
    /\ Get(r.advanced).equity_ratio = Some(7500)
    /\ Get(r.advanced).current_ratio = Some(220)
    /\ r.financials = OrderByYearDesc(FinScenario(r.stock))

\* C6: a stock whose eight inputs are all in the top tier (the scenario's
\* stock among them) is scored 25 in each of the four sub-scores and 100 in
\* total, and every rank the program assigns to the scenario's stock is "S".
C6_ScenarioRankedS ==
    /\ \A r \in scored :
          (TopTier(r) \/ IsScenario(r)) =>
              /\ r.valuation_score = 2500
              /\ r.profitability_score = 2500
              /\ r.growth_score = 2500
              /\ r.safety_score = 2500
              /\ r.total_score = 10000
    /\ \A c \in comprehensive, r \in scored :
          (c.stock = r.stock /\ IsScenario(r)) => c.score_data.rank = "S"

\* C8: the rank of every score the command computes follows the breakpoints
\* 80, 65, 50 and 35, each breakpoint falling in the higher bucket.
C8_RankBreakpoints ==
    \A c \in comprehensive :
        LET t == c.score_data.total_score
            k == c.score_data.rank
        IN  /\ k \in {"S", "A", "B", "C", "D"}
            /\ k = "S" <=> t >= 80
            /\ k = "A" <=> (65 <= t /\ t < 80)
            /\ k = "B" <=> (50 <= t /\ t < 65)
            /\ k = "C" <=> (35 <= t /\ t < 50)
            /\ k = "D" <=> t < 35

\* C8 witness: the command computed a total of exactly 80 points and ranked
\* it "S".
C8_Witness ==
    \E c \in comprehensive :
        c.score_data.total_score = 80 /\ c.score_data.rank = "S"

\* C9: the total of every score record is the sum of the four sub-scores the
\* record reports.
C9_TotalIsSum ==
    \A r \in scored :
        r.total_score =
            r.valuation_score + r.profitability_score + r.growth_score + r.safety_score

\* C9 witness: a record whose four sub-scores are all positive and whose
\* valuation score, 22.5, is not a whole number of points.
C9_Witness ==
    \E r \in scored :
        /\ r.valuation_score = 2250
        /\ r.profitability_score > 0
        /\ r.growth_score > 0
        /\ r.safety_score > 0
        /\ r.total_score = 2250 + r.profitability_score + r.growth_score + r.safety_score

\* C10: each half of the valuation score is a non-increasing step function of
\* its ratio over all present values, 12.5 points below 8 (below 0.8 for
\* price/book), 0 points from 25 (from 3.0), and 0 points for an absent ratio.
C10_ValuationTiers ==
    /\ \A r1, r2 \in scored :
          (/\ r1.indicator.pbr = r2.indicator.pbr
           /\ r1.indicator.per # None /\ r2.indicator.per # None
           /\ Get(r1.indicator.per) <= Get(r2.indicator.per)) =>
              r1.valuation_score >= r2.valuation_score
    /\ \A r1, r2 \in scored :
          (/\ r1.indicator.per = r2.indicator.per
           /\ r1.indicator.pbr # None /\ r2.indicator.pbr # None
           /\ Get(r1.indicator.pbr) <= Get(r2.indicator.pbr)) =>
              r1.valuation_score >= r2.valuation_score
    /\ \A r \in scored :
          LET per == r.indicator.per
              pbr == r.indicator.pbr
          IN  /\ (per = None /\ pbr = None) => r.valuation_score = 0
              /\ (pbr = None /\ per # None /\ Get(per) < 800) => r.valuation_score = 1250
              /\ (pbr = None /\ per # None /\ Get(per) >= 2500) => r.valuation_score = 0
              /\ (per = None /\ pbr # None /\ Get(pbr) < 80) => r.valuation_score = 1250
              /\ (per = None /\ pbr # None /\ Get(pbr) >= 300) => r.valuation_score = 0


(***************************************************************************)
(* Properties of the streak and of the growth rates (SpecCompare).         *)
(***************************************************************************)
\* the net incomes of a list of Financial rows, in the order of the list
NetIncomes(fin) == [i \in 1..Len(fin) |-> fin[i].net_income]

\* the number of leading adjacent pairs of a newest-first series whose
\* newer value is present, as is the older one, and strictly exceeds it
RECURSIVE LeadingGrowthPairs(_, _)
LeadingGrowthPairs(series, i) ==
    IF i > Len(series) - 1 THEN 0
    ELSE IF /\ series[i] # None
            /\ series[i + 1] # None
            /\ Get(series[i]) > Get(series[i + 1])
         THEN 1 + LeadingGrowthPairs(series, i + 1)
         ELSE 0

\* C11: the streak count the comparison page shows for a stock is the number
\* of leading adjacent pairs of its net-income series (newest first) in which
\* the newer value strictly exceeds the older one and both are present, a
\* value of zero or below being a present value; 0 with fewer than 2 records.
C11_StreakCount ==
    \A i \in 1..Len(stocks_data) :
        stocks_data[i].consecutive_years
            = LeadingGrowthPairs(NetIncomes(stocks_data[i].financials), 1)

\* the number of leading adjacent pairs of a year-descending list of rows
\* whose fiscal years differ by one
RECURSIVE LeadingContiguousPairs(_, _)
LeadingContiguousPairs(fin, i) ==
    IF i > Len(fin) - 1 THEN 0
    ELSE IF fin[i].year = fin[i + 1].year + 1
         THEN 1 + LeadingContiguousPairs(fin, i + 1)
         ELSE 0

\* C12: a pair of adjacent records whose fiscal years differ by more than
\* one stops the streak: the streak count never exceeds the number of
\* leading pairs of consecutive fiscal years, and a stock kept by the streak
\* filter for k years has k leading pairs of consecutive fiscal years.
C12_GapStopsStreak ==
    /\ \A i \in 1..Len(stocks_data) :
          stocks_data[i].consecutive_years
              <= LeadingContiguousPairs(stocks_data[i].financials, 1)
    /\ (request # None /\ Served.consecutive_profit_years # None) =>
          \A code \in ResultCodes :
              LeadingContiguousPairs(recent_financials(code), 1)
                  >= Get(Served.consecutive_profit_years)

YoyGrowth(current, previous) ==
    IF current # None /\ previous # None /\ Get(previous) > 0
    THEN Some(RoundDiv((Get(current) - Get(previous)) * 1000, Get(previous)))
    ELSE None

\* the ten newest Financial rows of a stock, newest first
FinancialsOf(code) == Take(OrderByYearDesc({r \in financials : r.stock = code}), 10)

\* C14: the revenue and net-income growth rates of every pair (current,
\* previous) shown on the comparison page and on the detail page are
\* (current - previous) / previous * 100 when both operands are present and
\* previous > 0, also for a current value of 0 or below, and absent when an
\* operand is absent or previous <= 0.
C14_YoyGrowth ==
    /\ \A i \in 1..Len(stocks_data) :
          LET e   == stocks_data[i]
              fin == e.financials
          IN  Len(fin) >= 2 =>
                /\ DictGet(e, "revenue_growth")
                      = YoyGrowth(fin[1].revenue, fin[2].revenue)
                /\ DictGet(e, "profit_growth")
                      = YoyGrowth(fin[1].net_income, fin[2].net_income)
    /\ \A a \in financial_analysis :
          LET fin == FinancialsOf(a.stock)
          IN  \A i \in 1..Len(a.analysis.growth_rates) :
                /\ a.analysis.growth_rates[i].revenue_growth
                      = YoyGrowth(fin[i].revenue, fin[i + 1].revenue)
                /\ a.analysis.growth_rates[i].profit_growth
                      = YoyGrowth(fin[i].net_income, fin[i + 1].net_income)

(***************************************************************************)
(* Properties of calculate_cagr (SpecCagr).                                *)
(***************************************************************************)
\* the oldest and the newest value of the series handed to calculate_cagr
Oldest == cagr_values[Len(cagr_values)]

Newest == cagr_values[1]

\* C15: calculate_cagr returns Absent for a series of fewer than 2 values,
\* for an oldest value <= 0, and for a negative newest value on a positive
\* oldest value when the exponent 1/periods is fractional; in every other
\* case it returns the real number ((newest / oldest) ^ (1/periods) - 1) * 100
\* of the first and the last value of the series.
C15_CagrAbsentOrReal ==
    (cagr # <<>> /\ cagr_years >= 1) =>
        IF Len(cagr_values) < 2 THEN cagr[1] = None
        ELSE IF Oldest.neg \/ AmountIsZero(Oldest) THEN cagr[1] = None
        ELSE IF Newest.neg /\ cagr_years > 1 THEN cagr[1] = None
        ELSE cagr[1] = Some([kind  |-> "real",
                             end   |-> Float(Newest),
                             start |-> Float(Oldest),
                             years |-> cagr_years])

\* every value of the series is positive
AllPositive == \A i \in 1..Len(cagr_values) : AmountLt(AmountOf(0), cagr_values[i])

\* the values strictly increase over time: each is above the next older one
IncreasingOverTime ==
    \A i \in 1..(Len(cagr_values) - 1) : AmountLt(cagr_values[i + 1], cagr_values[i])

DecreasingOverTime ==
    \A i \in 1..(Len(cagr_values) - 1) : AmountLt(cagr_values[i], cagr_values[i + 1])

\* a real CAGR is above 0 exactly when end / start is above 1, and below 0
\* exactly when it is below 1
CagrPositive(c) ==
    c # None /\ Get(c).kind = "real" /\ AmountLt(Get(c).start, Get(c).end)

CagrNegative(c) ==
    c # None /\ Get(c).kind = "real" /\ AmountLt(Get(c).end, Get(c).start)

\* C16: for a series of at least 2 positive values and a period count >= 1,
\* calculate_cagr is strictly positive when the values strictly increase
\* over time and strictly negative when they strictly decrease over time.
C16_CagrSign ==
    (cagr # <<>> /\ Len(cagr_values) >= 2 /\ AllPositive /\ cagr_years >= 1) =>
        /\ IncreasingOverTime => CagrPositive(cagr[1])
        /\ DecreasingOverTime => CagrNegative(cagr[1])

(***************************************************************************)
(* Properties of the snapshots the screening reads (Spec).                 *)
(***************************************************************************)
\* the stock's own most recent Indicator and AdvancedIndicator row
OwnLatestIndicator(code) == LatestRowOf({r \in indicators : r.stock = code})

OwnLatestAdvanced(code) == LatestRowOf({r \in advanced_indicators : r.stock = code})

\* the form configures no predicate on a snapshot value
NoSnapshotPredicate(form) ==
    /\ form.range = EmptyRange
    /\ OnlyListedConstraints(form)

\* C20: a stock that has an Indicator row is screened against its own most
\* recent Indicator row and, independently, its own most recent
\* AdvancedIndicator row, also when another stock has rows of a later date:
\* it is in the result of a valid form without snapshot predicates whose
\* other constraints it meets, and its result record holds exactly these rows.
C20_LatestPerEntity ==
    (request # None /\ is_valid(Served)) =>
        \A s \in stocks :
            OwnLatestIndicator(s.code) # None =>
                /\ NoSnapshotPredicate(Served) =>
                      (s.code \in ResultCodes <=> SatisfiesIn(Served, s, {}))
                /\ \A i \in 1..Len(results) :
                      results[i].stock = s.code =>
                          /\ results[i].indicator = Get(OwnLatestIndicator(s.code))
                          /\ results[i].advanced = OwnLatestAdvanced(s.code)

(***************************************************************************)
(* Properties of the normalizer (SpecNormalize).                           *)
(***************************************************************************)
\* the input is a finite number: a float or an int that is no NaN and no
\* infinity, a string that reads as a number, or a finite Decimal
HasNumber(v) ==
    IF v.type = "Decimal" THEN v.dec.special = ""
    ELSE DecimalOfText(v.text) # None /\ Get(DecimalOfText(v.text)).special = ""

\* the number the input is, with every digit of it
InputNumber(v) == IF v.type = "Decimal" THEN v.dec ELSE Get(DecimalOfText(v.text))

\* the magnitude of a finite Decimal is exactly 10^15
MagnitudeIs15(d) ==
    /\ Adjusted(d) = 15
    /\ d.digits[1] = 1
    /\ \A i \in 2..Len(d.digits) : d.digits[i] = 0

\* the inputs for which the normalizer is to return Absent: None, a float
\* NaN or infinity, a string that is no number (the words for a missing
\* value and the empty string among them), and a number or numeric string
\* of a magnitude above 10^15
MustBeAbsent(input) ==
    \/ input = None
    \/ /\ input # None
       /\ \/ Get(input).type = "float" /\ ~HasNumber(Get(input))
          \/ Get(input).type = "str" /\ ~HasNumber(Get(input))
          \/ /\ Get(input).type \in {"float", "int", "str"}
             /\ HasNumber(Get(input))
             /\ MagnitudeAbove15(InputNumber(Get(input)))

\* C17: safe_decimal_convert never raises, whatever the input, and returns
\* Absent for None, a float NaN, the infinities, the strings "nan", "null",
\* "none" in any case, the empty string, a text that is no number, and a
\* number or numeric string whose magnitude exceeds 10^15.
C17_NormalizerTotal ==
    /\ \A i \in 1..Len(converted) : converted[i].exception = ""
    /\ (converted # <<>> /\ MustBeAbsent(raw_value)) => converted[1].result = None

\* C18: every value safe_decimal_convert returns is a finite number of a
\* magnitude of at most 10^15; a number or numeric string of a magnitude of
\* exactly 10^15 is kept, one of a greater magnitude becomes Absent.
C18_MagnitudeBound ==
    /\ \A i \in 1..Len(converted) :
          converted[i].result # None =>
              /\ Get(converted[i].result).dec.special = ""
              /\ ~MagnitudeAbove15(Get(converted[i].result).dec)
    /\ (/\ converted # <<>>
        /\ raw_value # None
        /\ Get(raw_value).type \in {"float", "int", "str"}
        /\ HasNumber(Get(raw_value))) =>
            /\ MagnitudeIs15(InputNumber(Get(raw_value))) =>
                  converted[1].result # None
            /\ MagnitudeAbove15(InputNumber(Get(raw_value))) =>
                  converted[1].result = None

\* C19: normalizing what the normalizer returned returns it unchanged:
\* Absent stays Absent and a Decimal stays the same Decimal.
C19_Idempotent ==
    Len(converted) = 2 => converted[2] = converted[1]

\* the string "1e15" became the Decimal 1E+15, which str() writes as
\* "1E+15", and normalizing that Decimal returned 1E+15 again
C19_Witness ==
    /\ raw_value = Some(PyStr(<<"1", "e", "1", "5">>))
    /\ Len(converted) = 2
    /\ converted[1].result = Some(PyDecimal(Dec(0, <<1>>, 15, "")))
    /\ converted[2].result = Some(PyDecimal(Dec(0, <<1>>, 15, "")))

(***************************************************************************)
(* Properties of the screening while the data changes (SpecRescreen) and   *)
(* of the fetching of indicators (SpecFetch).                              *)
(***************************************************************************)
\* every record of the stock with this code in the data a request read
OwnRecords(screening, code) ==
    <<{s \in screening.stocks : s.code = code},
      {r \in screening.indicators : r.stock = code},
      {r \in screening.advanced_indicators : r.stock = code},
      {r \in screening.financials : r.stock = code}>>

\* whether the stock is in the result, and its four sub-scores if it is: the
\* set of its score records, empty when it is not in the result
OutcomesIn(queryset, code) ==
    {[valuation_score     |-> queryset[i].valuation_score,
      profitability_score |-> queryset[i].profitability_score,
      growth_score        |-> queryset[i].growth_score,
      safety_score        |-> queryset[i].safety_score] :
        i \in {j \in 1..Len(queryset) : queryset[j].stock = code}}

\* C21: a stock's inclusion in the result and its four sub-scores depend on
\* the criteria and the stock's own records only: two requests with the same
\* criteria over data that holds the same records of the stock give the
\* stock the same outcome, whatever the records of the other stocks are.
C21_EntityIndependence ==
    \A i, j \in 1..Len(screenings) :
        \A s \in screenings[i].stocks :
            (/\ screenings[i].form = screenings[j].form
             /\ OwnRecords(screenings[i], s.code) = OwnRecords(screenings[j], s.code)) =>
                OutcomesIn(screenings[i].results, s.code)
                    = OutcomesIn(screenings[j].results, s.code)

\* no two Indicator rows of one stock and one date
AtMostOnePerDay ==
    \A r1, r2 \in indicators : (r1.stock = r2.stock /\ r1.date = r2.date) => r1 = r2

\* the statement with which worker w ends its call writes the call's four
\* values into the one row of its stock and day, and adds no row beside a
\* row that was there
WritesOneRow(w) ==
    (Fetcher(w).pc \in {"create", "save"} /\ Fetcher(w)'.pc = "done") =>
        /\ \E r \in indicators' :
              /\ RowsOf(indicators', Fetcher(w).stock, Fetcher(w).date) = {r}
              /\ \A a \in FetchedColumns : r[a] = Fetcher(w).quote[a]
        /\ RowsOf(indicators, Fetcher(w).stock, Fetcher(w).date) # {} =>
              Cardinality(indicators') = Cardinality(indicators)

\* C25: in every interleaving of fetch_stock_indicators calls there is at
\* most one Indicator row per stock and date, and a call for a stock and day
\* that has a row overwrites per, pbr, dividend_yield and price of that row
\* and adds none.
C25_OneSnapshotPerDay ==
    []AtMostOnePerDay /\ [][\A w \in Workers : WritesOneRow(w)]_vars

\* two calls for the same stock and day ran at once with different values:
\* one created the row, the other read it and overwrote it, and the one row
\* holds the values of the second
C25_Witness ==
    \E w1, w2 \in DOMAIN fetchers :
        /\ w1 # w2
        /\ fetchers[w1].pc = "done" /\ fetchers[w2].pc = "done"
        /\ fetchers[w1].stock = fetchers[w2].stock /\ fetchers[w1].stock # 0
        /\ fetchers[w1].date = fetchers[w2].date
        /\ fetchers[w1].row = None
        /\ fetchers[w2].row = Some(CreatedRow(fetchers[w1].stock, fetchers[w1].date, fetchers[w1].quote))
        /\ fetchers[w1].quote # fetchers[w2].quote
        /\ RowsOf(indicators, fetchers[w2].stock, fetchers[w2].date)
              = {SavedRow(Get(fetchers[w2].row), fetchers[w2].quote)}

(***************************************************************************)
(* Properties of the order of the results (SpecSort).                      *)
(***************************************************************************)
\* the sort field and the direction sort_results takes from sort_by
ServedSortField ==
    IF StartsWithMinus(Served.sort_by) THEN StripMinus(Served.sort_by) ELSE Served.sort_by

\* C22: for every sort key and both directions, results whose sort-key
\* values are equal stand in ascending order of stock code.
C22_TieBreakByCode ==
    (request # None /\ is_valid(Served)) =>
        \A i, j \in 1..Len(results) :
            (/\ i < j
             /\ get_sort_value(results[i], ServedSortField)
                   = get_sort_value(results[j], ServedSortField)) =>
                results[i].stock < results[j].stock

\* both stocks are in the result of a descending sort with equal PER, the
\* lower code first
C22_Witness ==
    /\ request # None
    /\ Served.sort_by = "-per"
    /\ Len(results) = 2
    /\ Truthy(results[1].indicator.per)
    /\ results[1].indicator.per = results[2].indicator.per
    /\ results[1].stock < results[2].stock

\* the options of sort_by whose label says highest first, 高い順 and 大きい順
HighestFirst ==
    {"total_score", "-per", "-pbr", "-roe", "-dividend_yield", "-price", "-market_cap"}

\* the options whose label says lowest first, 低い順, 安い順, 小さい順 and 昇順
LowestFirst ==
    {"-total_score", "per", "pbr", "roe", "dividend_yield", "price", "market_cap", "code"}

\* the value a result has for the column an option sorts by, None without one
SortColumn(item, sort_field) ==
    CASE sort_field = "total_score" -> Some(item.total_score)
      [] sort_field = "roe" -> item.roe
      [] sort_field = "code" -> Some(item.stock)
      [] OTHER -> item.indicator[sort_field]

\* C23: the results are ordered in the direction the label of the chosen
\* sort_by option states: total_score highest first, -total_score lowest
\* first, and so for every other option, among the results that have a
\* value in the column.
C23_SortDirection ==
    (request # None /\ is_valid(Served) /\ Served.sort_by # "") =>
        \A i, j \in 1..Len(results) :
            (/\ i < j
             /\ Truthy(SortColumn(results[i], ServedSortField))
             /\ Truthy(SortColumn(results[j], ServedSortField))) =>
                /\ Served.sort_by \in HighestFirst =>
                      Get(SortColumn(results[i], ServedSortField))
                          >= Get(SortColumn(results[j], ServedSortField))
                /\ Served.sort_by \in LowestFirst =>
                      Get(SortColumn(results[i], ServedSortField))
                          <= Get(SortColumn(results[j], ServedSortField))

(***************************************************************************)
(* Properties of the listing feed (SpecIngest).                            *)
(***************************************************************************)
\* every code a feed row was accepted for has exactly one Stock row, which
\* carries the name, market and sector of the last accepted row of the code
OneStockPerListing ==
    \A code \in DOMAIN listed :
        /\ Cardinality(StocksOf(stocks, code)) = 1
        /\ \A s \in StocksOf(stocks, code) :
              /\ s.name = listed[code].name
              /\ s.market = listed[code].market
              /\ s.sector = listed[code].sector

\* a run removes no Stock row, and a run on the feed of the run before it
\* changes no Stock row and returns 0
IngestAgain ==
    /\ \A s \in stocks : StocksOf(stocks', s.code) # {}
    /\ (ingest.count > 0 /\ ingest'.count = ingest.count + 1 /\ ingest'.feed = ingest.feed) =>
          (stocks' = stocks /\ ingest'.created = 0)

LogsOf(id) == {k \in 1..Len(alert_logs) : alert_logs[k].rule = id}

Quiet == \A w \in MonitorWorkers : Monitor(w).pc = "idle"

\* C27: in any schedule of runs of check_price_alerts, overlapping runs
\* among them, a price rule has at most one AlertLog per day, and when no
\* run is in progress its trigger_count is the number of its AlertLogs and
\* its last_triggered is set once it has one.
C27_OnceADay ==
    /\ \A j, k \in 1..Len(alert_logs) :
          (alert_logs[j].rule = alert_logs[k].rule
              /\ alert_logs[j].date = alert_logs[k].date) => j = k
    /\ Quiet =>
          \A id \in 1..Len(alert_rules) :
              /\ alert_rules[id].trigger_count = Cardinality(LogsOf(id))
              /\ LogsOf(id) # {} => alert_rules[id].last_triggered # None

(***************************************************************************)
(* Properties of the data-quality issues (SpecQuality).                    *)
(***************************************************************************)
SameProblem(a, b) == a.rule = b.rule /\ a.stock = b.stock /\ a.field_name = b.field_name

Unsettled(issue) == issue.status \in {"open", "investigating"}

ProblemCount(rows, issue) == Cardinality({k \in 1..Len(rows) : SameProblem(rows[k], issue)})

\* what a run detects of the problem of an issue, in the order of detection
Redetected(issue) ==
    SelectSeq(check_value_ranges(OrderByCode(stocks), quality_rules[issue.rule]),
              LAMBDA d : d.stock = issue.stock /\ d.field_name = issue.field_name)

\* at most one issue that is open or investigating per (rule, stock,
\* field_name)
OneUnsettledIssue ==
    \A j, k \in 1..Len(quality_issues) :
        (/\ Unsettled(quality_issues[j])
         /\ Unsettled(quality_issues[k])
         /\ SameProblem(quality_issues[j], quality_issues[k])) => j = k

\* a run of run_quality_checks on an issue that is open or investigating:
\* no issue and no notification of its problem is added, and when the
\* problem is detected again the issue takes the current value and the
\* description detected last
RedetectionUpdates ==
    quality_count' = quality_count + 1 =>
        \A k \in 1..Len(quality_issues) :
            Unsettled(quality_issues[k]) =>
                /\ ProblemCount(quality_issues', quality_issues[k])
                      = ProblemCount(quality_issues, quality_issues[k])
                /\ ProblemCount(quality_alerts', quality_issues[k])
                      = ProblemCount(quality_alerts, quality_issues[k])
                /\ quality_rules[quality_issues[k].rule].is_active
                      /\ Redetected(quality_issues[k]) # <<>> =>
                      /\ quality_issues'[k].current_value =
                            Redetected(quality_issues[k])[Len(Redetected(quality_issues[k]))].current_value
                      /\ quality_issues'[k].issue_description =
                            Redetected(quality_issues[k])[Len(Redetected(quality_issues[k]))].issue_description

\* C30: after any sequence of runs of run_quality_checks there is at most
\* one DataQualityIssue that is open or investigating per (rule, stock,
\* field_name), and a run that detects the problem of such an issue again
\* updates its current value and description, creates no issue and sends no
\* admin notification for it.
C30_IssuesDeduplicated == []OneUnsettledIssue /\ [][RedetectionUpdates]_vars

\* the problem of an open issue was detected again with another value: the
\* issue holds the new value, it is the only issue of the stock, and one
\* notification was sent for it
C30_Witness ==
    /\ quality_count >= 2
    /\ \E k \in 1..Len(quality_issues) :
          /\ quality_issues[k].rule = 1
          /\ quality_issues[k].status = "open"
          /\ quality_issues[k].field_name = "roe"
          /\ quality_issues[k].current_value = 30000
          /\ ProblemCount(quality_issues, quality_issues[k]) = 1
          /\ ProblemCount(quality_alerts, quality_issues[k]) = 1
    /\ \E r \in advanced_indicators :
          r.stock = Subject.code /\ r.date = today /\ r.roe = Some(30000)

(***************************************************************************)
(* Properties of the empty-criteria check and of the custom formula (Spec).*)
(***************************************************************************)
\* at least one filter field of the form is set
AnyFilterSet(form) ==
    \/ \E f \in RangeFieldNames : form.range[f] # None
    \/ form.market # <<>>
    \/ form.sector # <<>>
    \/ form.size_category # ""
    \/ form.consecutive_profit_years # None
    \/ form.consecutive_dividend_years # None
    \/ form.custom_formula # <<>>
    \/ form.exclude_loss_stocks
    \/ form.exclude_sectors # {}

\* C28: every form whose fields are valid and in which at least one filter
\* field is set passes the empty-criteria check of clean().
C28_NonEmptyAccepted ==
    (request # None /\ FieldsValid(Served) /\ AnyFilterSet(Served)) => has_condition(Served)

\* the text of the formula contains a blocked keyword, in any letter case
Blocked(formula) == \E keyword \in dangerous_keywords : Contains(Lower(formula), keyword)

\* C29: a form whose only condition is custom_formula returns every stock
\* with a latest Indicator row when the formula contains no blocked keyword,
\* whatever the formula says, and no stock when the formula contains one.
C29_FormulaNeverEvaluated ==
    (request # None /\ Served \in FormulaForms) =>
        IF Blocked(Served.custom_formula)
        THEN results = <<>>
        ELSE ResultCodes = {s.code : s \in {t \in stocks : latest_indicators(t.code) # {}}}

=============================================================================
